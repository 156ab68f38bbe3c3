--------------------------- MODULE MCDownloadBatch ---------------------------
(***************************************************************************)
(* Three scenes of a batch of three files in one run.  "unattended": nobody  *)
(* opens a window, and the job may be cancelled, lose its session or a       *)
(* worker, and wait for slots of other jobs.  "attended": one file is there  *)
(* already, nothing disturbs the other two, and the user answers in a window  *)
(* opened at any time.  "cancelling": one file is left, the window is also   *)
(* destroyed and opened again, and the job may be cancelled at any moment,   *)
(* so that answers come too late.                                          *)
(***************************************************************************)
EXTENDS DownloadBatch

VARIABLE scene

attended == scene # "unattended"

MCInit == \/ scene = "unattended" /\ Begun(0)
          \/ scene = "attended"   /\ Begun(1) /\ others = 0
          \/ scene = "cancelling" /\ Begun(2) /\ others = 0

MCNext ==
  /\ Next /\ UNCHANGED scene
  /\ IF attended THEN /\ session' /\ others' = 0 /\ \A w \in Workers : worker'[w].pc # "panicked"
                      /\ scene = "attended" => ~cancelled' /\ (ui.open => ui'.open)
     ELSE ~ui'.open

\* The back end runs in every scene; somebody opens the window and answers in two.
MCSpec ==
  /\ MCInit /\ [][MCNext]_<<vars, scene>> /\ Runs
  /\ WF_vars(WindowStep \/ (attended /\ (OpenWindow \/ Answer)))

-----------------------------------------------------------------------------
\* A cancelled batch ends although nobody answers and other jobs keep their slots;
\* with somebody at the window every batch ends, and every window that is opened
\* learns of it, however late.
BatchesEnd ==
  /\ token ~> Terminal
  /\ attended => <>Terminal
  /\ Terminal ~> (ui.ended \/ ~ui.open)
=============================================================================
