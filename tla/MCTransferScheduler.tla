------------------------ MODULE MCTransferScheduler ------------------------
(***************************************************************************)
(* A small instance of the scheduler: a transfer of one server, and        *)
(* another which two workers serve at once, the situation pausing and      *)
(* resuming a transfer creates.  The profile of the second names the same  *)
(* server at first, or at last, and another one otherwise.                 *)
(***************************************************************************)
EXTENDS TransferScheduler

CONSTANTS t1, t2, t3, a, b, one, two, user

MCTask == {t1, t2, t3}
MCId == {a, b}
MCEndpoint == {one, two}
MCCaller == {user}
MCIdOf == (t1 :> a) @@ (t2 :> b) @@ (t3 :> b)
MCEndpointsOf == (a :> {one}) @@ (b :> {one, two})

=============================================================================
