---------------------------- MODULE MCVdpDrawing ----------------------------
(***************************************************************************)
(* How the VDP comes to its picture: the commands that draw it, and the    *)
(* assembly of its rows while the guest changes it, in small instances.    *)
(* To the rows a command is the rows it announces; so a behaviour follows  *)
(* one of the two.                                                         *)
(***************************************************************************)
EXTENDS VdpCommands, RenderSync

CONSTANT Focuses   \* the parts that are followed

VARIABLE focus

-----------------------------------------------------------------------------
(***************************************************************************)
(* Commands: a mode with two pixels in a byte and a planar one with a      *)
(* pixel in a byte, lines of four pixels, bytes of two bits.               *)
(***************************************************************************)
MCTraits == [m \in {"G4", "G7"} |->
  IF m = "G4" THEN [line |-> 4, ppb |-> 2, rows |-> 4, planar |-> FALSE]
           ELSE [line |-> 4, ppb |-> 1, rows |-> 2, planar |-> TRUE]]

Straight == ResetArg
Back == [ResetArg EXCEPT !.dix = TRUE, !.diy = TRUE]
Steep == [ResetArg EXCEPT !.maj = TRUE]
SteepBack == [Back EXCEPT !.maj = TRUE, !.eq = TRUE]

B(sx, sy, dx, dy, nx, ny, arg) ==
  [sx |-> sx, sy |-> sy, dx |-> dx, dy |-> dy, nx |-> nx, ny |-> ny, arg |-> arg]

MCBlocks == {B(1, 1, 0, 0, 2, 2, Straight), B(0, 0, 3, 1, 3, 1, Back),
             B(3, 0, 2, 1, 0, 1, Straight), B(2, 0, 2, 0, 3, 2, Steep),
             B(0, 1, 5, 0, 2, 1, Straight), B(2, 3, 3, 3, 2, 1, SteepBack)}

Imp == [op |-> "Imp", transparent |-> FALSE]
Xor == [op |-> "Xor", transparent |-> FALSE]
And == [op |-> "And", transparent |-> FALSE]
TNot == [op |-> "Not", transparent |-> TRUE]
Dummy == [op |-> "Dummy", transparent |-> FALSE]

MCCommands == {<<"ABRT", Imp>>, <<"POINT", Imp>>, <<"PSET", And>>, <<"SRCH", Imp>>,
               <<"LINE", Imp>>, <<"LINE", Xor>>, <<"LMMV", Imp>>, <<"LMMV", Xor>>,
               <<"LMMV", Dummy>>, <<"LMMM", Imp>>, <<"LMMM", TNot>>, <<"LMCM", Imp>>,
               <<"LMMC", Imp>>, <<"LMMC", Xor>>, <<"HMMV", Imp>>, <<"HMMM", Imp>>,
               <<"YMMM", Imp>>, <<"HMMC", Imp>>}

MCPictures == {[a \in 0 .. 7 |-> CASE a \in {0, 5} -> 1 [] a \in {2, 7} -> 2
                                   [] a = 3 -> 3 [] OTHER -> 0]}

MCWrites == {<<0, 2>>}

MCTicks == [c \in {"ABRT", "POINT", "PSET", "SRCH", "LINE", "LMMV", "LMMM", "LMCM", "LMMC",
                   "HMMV", "HMMM", "YMMM", "HMMC"} |-> IF c \in {"HMMV", "SRCH"} THEN 9 ELSE 1]
MCLineTicks == [c \in DOMAIN MCTicks |-> 0]

-----------------------------------------------------------------------------
(***************************************************************************)
(* Rows: a display of two or four rows under a border of three or one.     *)
(* Commands write the top row, a row in the middle, and one below the      *)
(* display, as a scrolled destination may be.                              *)
(***************************************************************************)
RowsOfCommands == {0, 2, 5}

-----------------------------------------------------------------------------
drawing_vars == <<vars, render_vars, focus>>

DrawingInit ==
  /\ focus \in Focuses
  /\ Init /\ RenderInit
  /\ focus = "rows" => e.scr_mode = "G4"

DrawingNext ==
  /\ \/ focus = "commands" /\ Next /\ UNCHANGED render_vars
     \/ focus = "rows" /\ RenderNext /\ UNCHANGED vars
  /\ UNCHANGED focus

\* The fairness of VdpCommands: the program goes on, and serves a transfer.
DrawingSpec ==
  /\ DrawingInit /\ [][DrawingNext]_drawing_vars
  /\ WF_vars(focus = "commands" /\ (Wait \/ AccessVram))
  /\ WF_vars(focus = "commands" /\ ServeUnit)

-----------------------------------------------------------------------------
\* A block, a LINE or a SRCH gives the picture and the answer that its
\* parameters ask for, in every direction, mode and logical operation
\* (vdp_command_engine.cpp).
CommandsExact == focus = "commands" => BlocksExact /\ LineExact /\ SearchExact

\* A command comes to its end while the program serves what TR asks for, and
\* CE reads as clear some time after, also under a program that takes slots
\* from the command all the time (v9958_vdp.cpp, S#2).
CommandsComplete == CommandEnds /\ BusyCloses
=============================================================================
