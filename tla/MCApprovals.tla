---------------------------- MODULE MCApprovals ----------------------------
(* Instances of Approvals for TLC. *)
EXTENDS Approvals

CONSTANTS s1, pageA, pageB

\* Two pages of one session.
SharedSession == (pageA :> s1) @@ (pageB :> s1)

\* Both pages while codex runs for the first time; one of them if it is restarted.
OnePageAfterRestart == (0 :> {pageA, pageB}) @@ (1 :> {pageA, pageB}) @@ (2 :> {pageA})

=============================================================================
