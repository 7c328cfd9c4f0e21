----------------------------- MODULE MCRegistry -----------------------------
(***************************************************************************)
(* A small registry: two sandbox institutions and room for a third.        *)
(***************************************************************************)
EXTENDS Registry, TLC

CONSTANTS api, v1, v2, x, recode, reuse, credit, twice, cap, lower, close, wild, forged

Ask(kind, i, code, limit, admin) ==
  [kind |-> kind, institution |-> i, code |-> code, fingerprint |-> x, limit |-> limit,
   admin |-> admin]

\* recode gives institution 1 another code and reuse takes the code that becomes
\* free; credit and twice ask for the same credential; lower lowers the limit of cap,
\* wild has a limit that does not validate, and forged does not come from an
\* administrator.
MCRequest ==
  [r \in Requests |->
     CASE r = recode -> Ask("create", 1, 3, <<0, 0>>, TRUE)
       [] r = reuse  -> Ask("create", 3, 1, <<0, 0>>, TRUE)
       [] r = credit -> Ask("credential", 2, 1, <<0, 0>>, TRUE)
       [] r = twice  -> Ask("credential", 2, 1, <<0, 0>>, TRUE)
       [] r = cap    -> Ask("limit", 2, 1, <<2, 1>>, TRUE)
       [] r = lower  -> Ask("limit", 2, 1, <<1, 1>>, TRUE)
       [] r = close  -> Ask("suspend", 2, 1, <<0, 0>>, TRUE)
       [] r = wild   -> Ask("limit", 2, 1, <<1, 2>>, TRUE)
       [] r = forged -> Ask("limit", 2, 1, <<1, 1>>, FALSE)]

MCSeedCode == [i \in Seeds |-> i]
MCLimits   == {<<0, 0>>, <<2, 1>>, <<1, 1>>, <<1, 2>>}
MCMode     == [v \in Validators |-> IF v = v1 THEN "forever" ELSE "sweep"]
MCLeaderAt == [h \in 1..Deposits |-> IF h % 2 = 1 THEN v1 ELSE v2]
=============================================================================
