------------------------------ MODULE MCIntake ------------------------------
(* A text channel in each session mode, and a forum. *)
EXTENDS Intake

MCSetups ==
  [forum : {FALSE}, mode : Modes] \cup [forum : {TRUE}, mode : {"shared", "thread"}]

(* A text channel whose threads are the conversations. *)
MCThreadSetups == [forum : {FALSE}, mode : {"thread"}]
=============================================================================
