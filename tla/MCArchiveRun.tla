---------------------------- MODULE MCArchiveRun ----------------------------
(* Small instances of ArchiveRun for TLC: one record per session.           *)
EXTENDS ArchiveRun

CONSTANT s1

\* A record is named after its session, a file too.
MCSessionOf == [r \in Records |-> r]
MCPathOf == [s \in Sessions |-> s]

\* Two records of one session.
OneSession == [r \in Records |-> s1]
=============================================================================
