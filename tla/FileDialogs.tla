----------------------------- MODULE FileDialogs -----------------------------
(***************************************************************************)
(* The file dialogs of the frontend (src/src/frontend/sdl3_app.cpp).  SDL  *)
(* shows a dialog asynchronously and calls back with the answer on a       *)
(* thread of its own; the callback only leaves the answer in a mailbox     *)
(* under a mutex, and the main loop applies it to the session (DiskMedia)  *)
(* at the start of a frame.  A section under the mutex is one action.      *)
(***************************************************************************)
EXTENDS DiskMedia

CONSTANT NoAnswer    \* a cancelled dialog, an empty selection or an SDL error

Kinds == {"OpenDisks", "OpenCartSlot1", "OpenCartSlot2", "SaveBlankDisk", "OpenBiosFolder"}
NoKind == "None"
\* The directory a dialog of each kind starts in.
DirOf == [k \in Kinds |-> CASE k \in {"OpenDisks", "SaveBlankDisk"} -> "disk_dir"
                            [] k = "OpenBiosFolder" -> "bios_dir"
                            [] OTHER -> "cartridge_dir"]
NoDialog == [kind |-> NoKind, dir |-> "none"]

VARIABLES
  opening,      \* the dialog the main thread is about to show
  dialog,       \* the dialog SDL shows; it refers to the directory string
  default_dir,  \* dialog_default_dir_, the string itself
  in_flight, pending, kind, paths_chosen,   \* the mailbox
  answered      \* history: the kind of the dialog whose answer waits

mailbox == <<opening, dialog, default_dir, in_flight, pending, kind, paths_chosen, answered>>
dialogVars == <<vars, mailbox>>

DInit ==
  /\ Init
  /\ opening = NoKind /\ dialog = NoDialog /\ default_dir = "none"
  /\ in_flight = FALSE /\ pending = FALSE /\ kind = NoKind
  /\ paths_chosen = NoAnswer /\ answered = NoKind

MainThreadFree == running /\ opening = NoKind

\* Mutant: an answer that was not drained does not hold back a new dialog.
UndrainedAskFor(k) ==
  /\ MainThreadFree
  /\ ~in_flight
  /\ in_flight' = TRUE /\ kind' = k /\ opening' = k
  /\ UNCHANGED <<vars, dialog, default_dir, pending, paths_chosen, answered>>

\* open_disk_dialog and its likes, up to the unlock; while a dialog is open
\* or its answer not drained the request is dropped.
AskFor(k) ==
  /\ MainThreadFree
  /\ ~in_flight /\ ~pending
  /\ in_flight' = TRUE /\ kind' = k /\ opening' = k
  /\ UNCHANGED <<vars, dialog, default_dir, pending, paths_chosen, answered>>

\* ... and after it.  The string outlives the call because it is a member.
ShowDialog ==
  /\ opening # NoKind
  /\ default_dir' = DirOf[opening]
  /\ dialog' = [kind |-> opening, dir |-> DirOf[opening]]
  /\ opening' = NoKind
  /\ UNCHANGED <<vars, in_flight, pending, kind, paths_chosen, answered>>

Answers(k) ==
  {NoAnswer} \cup
  CASE k = "OpenDisks" -> Selections
    [] k = "SaveBlankDisk" -> {<<f>> : f \in Files}
    [] OTHER -> {<<k>>}

\* Mutant: the callback closes the mailbox for the main thread only later.
LateDialogCallback ==
  /\ dialog # NoDialog
  /\ \E answer \in Answers(dialog.kind) : paths_chosen' = answer
  /\ pending' = TRUE /\ answered' = dialog.kind
  /\ dialog' = NoDialog
  /\ UNCHANGED <<vars, opening, default_dir, in_flight, kind>>

\* dialog_callback, on a thread of SDL's, at any point of the main thread.
DialogCallback ==
  /\ dialog # NoDialog
  /\ \E answer \in Answers(dialog.kind) : paths_chosen' = answer
  /\ pending' = TRUE /\ in_flight' = FALSE
  /\ answered' = dialog.kind
  /\ dialog' = NoDialog
  /\ UNCHANGED <<vars, opening, default_dir, kind>>

\* apply_open_cartridge resets the machine after an insert and changes nothing
\* when the file is refused; apply_bios_folder likewise ends in a power cycle
\* or, if a file is missing, in nothing.
Refused == UNCHANGED vars
Apply(k, answer) ==
  IF answer = NoAnswer THEN UNCHANGED vars
  ELSE CASE k = "OpenDisks" -> OpenSelection(answer)
         [] k = "SaveBlankDisk" -> WriteBlank(answer[1])
         [] OTHER -> Remount \/ Refused

\* drain_dialog_mailbox, at the start of a frame.
DrainMailbox ==
  /\ MainThreadFree
  /\ pending
  /\ Apply(kind, paths_chosen)
  /\ pending' = FALSE /\ kind' = NoKind /\ paths_chosen' = NoAnswer /\ answered' = NoKind
  /\ UNCHANGED <<opening, dialog, default_dir, in_flight>>

\* What else the main thread does between two frames.
SessionStep ==
  /\ \/ Start
     \/ /\ MainThreadFree
        /\ \/ GuestWrite \/ SwapDisk \/ ToggleWritable
           \/ EjectDisk \/ ResetMachine \/ PowerCycle
  /\ UNCHANGED mailbox

\* The window takes an open dialog with it when the session ends.
EndSession ==
  /\ MainThreadFree
  /\ Shutdown \/ Crash
  /\ opening' = NoKind /\ dialog' = NoDialog /\ default_dir' = "none"
  /\ in_flight' = FALSE /\ pending' = FALSE /\ kind' = NoKind
  /\ paths_chosen' = NoAnswer /\ answered' = NoKind

DNext ==
  \/ \E k \in Kinds : AskFor(k)
  \/ ShowDialog \/ DialogCallback \/ DrainMailbox \/ SessionStep \/ EndSession

\* Frames go on, so the main loop finishes what it began and drains.  The
\* user need not answer.
DSpec == DInit /\ [][DNext]_dialogVars
DFairSpec == DSpec /\ WF_dialogVars(ShowDialog) /\ WF_dialogVars(DrainMailbox)

-----------------------------------------------------------------------------
\* The answer that waits in the mailbox, and the one the open dialog will
\* leave, are applied as what the user was asked for: a list of disks is
\* never loaded as a cartridge, a cartridge file never opened as a disk
\* (in_flight, pending and kind against the callback thread).
AppliedAsAsked ==
  /\ pending => kind = answered
  /\ dialog # NoDialog => kind = dialog.kind

\* The directory string SDL refers to while a dialog is open is not changed
\* under it by the opener of another dialog.
DirectoryStands == dialog # NoDialog => default_dir = dialog.dir

\* So what the program keeps about a dialog stands while threads share it.
DialogStands == AppliedAsAsked /\ DirectoryStands

\* The menu is never locked for good: once the user has answered, the next
\* dialog can be opened after some frames, whatever was answered.
MailboxFreed == pending ~> (~in_flight /\ ~pending)
=============================================================================
