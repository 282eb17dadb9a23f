----------------------------- MODULE MCTriggers -----------------------------
(* Three bindings in registry order: one whose strategy always raises, one *)
(* with a watermark, one with a lookback.  Requests p1 and p2 are a push and *)
(* its retry; p3 reuses their key for the adjustment period after month 4 of *)
(* the watermark binding; p8 is refused.  The clock skips a month.          *)
EXTENDS PushTrigger, TLC

CONSTANTS bad, gl, hr, p1, p2, p3, p8, k1

MCBindings == <<bad, gl, hr>>
MCStrategy == (bad :> "explicit") @@ (gl :> "watermark") @@ (hr :> "lookback")
MCFiresAt == (bad :> {}) @@ (gl :> {1, 2}) @@ (hr :> {1})
MCMonthAt == [t \in 0..2 |-> IF t = 2 THEN 6 ELSE 4]

Ask(r, b, p, k, o) == [route |-> r, binding |-> b, period |-> p, key |-> k, override |-> o]
Token(v, bs, rs) == [valid |-> v, bindings |-> bs, roles |-> rs]
Manager == Token(TRUE, {hr, gl}, {"plan_manager"})

MCAsks == (p1 :> Ask("push", hr, 12, k1, FALSE)) @@ (p2 :> Ask("push", hr, 12, k1, FALSE))
       @@ (p3 :> Ask("push", gl, 9, k1, FALSE))  @@ (p8 :> Ask("admin", hr, 12, NoKey, FALSE))
MCCaller == (p1 :> Manager) @@ (p2 :> Manager) @@ (p3 :> Manager) @@ (p8 :> Manager)
=============================================================================
