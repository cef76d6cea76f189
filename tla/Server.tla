-------------------------------- MODULE Server --------------------------------
(***************************************************************************)
(* What the modules of the API's smaller services share: the slots in      *)
(* which calls run side by side, and the way a row is saved.               *)
(*                                                                         *)
(* A handler reads a row, awaits other things, changes some columns of     *)
(* its copy and calls save(): the repository reads the row again by its id *)
(* and writes every column in which the copy differs, so that afterwards   *)
(* the row is the copy, unless it changed between the two statements.      *)
(* Accounts, Assets and Invoices have a step for each statement; Chat,     *)
(* AppAccess and Recurring one for both.                                   *)
(***************************************************************************)
EXTENDS Naturals, FiniteSets

CONSTANTS
  Call,  \* slots for API calls running at the same time
  None

ASSUME NoneIsNoCall == None \notin Call
ASSUME CallsAreFinite == IsFiniteSet(Call)

\* What is lost when a copy of `seen` is saved over `row`: nothing, or one change.
Lost(row, seen) == IF row = seen THEN 0 ELSE 1
=============================================================================
