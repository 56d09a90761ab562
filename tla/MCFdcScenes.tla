----------------------------- MODULE MCFdcScenes ----------------------------
(***************************************************************************)
(* Two ways to use the disk interface: transfers on a protected disk that  *)
(* the user and Force Interrupt interfere with, and commands that a        *)
(* program waits for while disks are changed.  Each is the interface with  *)
(* its own commands, user actions and length; the constants of the module  *)
(* itself cover both.                                                      *)
(***************************************************************************)
EXTENDS MCSonyFdc

VARIABLE scene   \* "meddled" or "waited", chosen at the start

Meddled == INSTANCE SonyFdc WITH
  Commands <- TransferCommands, Protection <- {TRUE}, MaxTime <- 3, LastAccess <- 1,
  UserActions <- {"fast", "eject", "reset"}

Waited == INSTANCE SonyFdc WITH
  Commands <- WaitedCommands, Protection <- {FALSE}, UserActions <- {"insert"}

SceneInit == \/ scene = "meddled" /\ Meddled!Init
             \/ scene = "waited" /\ Waited!Init

SceneNext == /\ \/ scene = "meddled" /\ Meddled!Next
                \/ scene = "waited" /\ Waited!Next
             /\ UNCHANGED scene

\* The fairness of SonyFdc, for the program that waits: time goes on, and it
\* polls the status and takes the data it is offered.
SceneSpec ==
  /\ SceneInit /\ [][SceneNext]_<<vars, scene>>
  /\ WF_vars(scene = "waited" /\ Tick)
  /\ WF_vars(scene = "waited" /\ ReadStatus)
  /\ WF_vars(scene = "waited" /\ ReadData)

\* Every command but Write Track comes to its end when a program waits for
\* it: seeks at their time, reads when the data is taken, writes although the
\* program may have stopped before its first byte or in the middle of the
\* sector, and also when the disk is changed on the way (sync).
CommandsComeToEnd == scene = "waited" /\ fdc.phase # "Idle" ~> fdc.phase = "Idle"
=============================================================================
