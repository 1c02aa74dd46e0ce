---------------------------- MODULE HostCommands ----------------------------
(***************************************************************************)
(* The commands of the host tool that build and publish packages (Builds)  *)
(* beside those that wait for the device or the Simulator (Probes).  They  *)
(* share no state.                                                         *)
(***************************************************************************)
EXTENDS Builds, Probes

(* What builders (API.md, "Failures are categorized by the last reached    *)
(* operation") and the commands of the device report is what happened.     *)
ReportsTruly == BuildsReportTruly /\ AnswersTruly
=============================================================================
