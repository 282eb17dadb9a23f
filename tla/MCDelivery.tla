----------------------------- MODULE MCDelivery -----------------------------
(* Three bindings over one landing store, the second of a kind that has a   *)
(* store in one environment of the daemon and none in the other.  Files 1   *)
(* to 3 sort in this order: one without a period, one that cannot be read,  *)
(* and one that all three bindings match, the first beside the file without *)
(* a period and the second beside the one that cannot be read.  Uploads u1  *)
(* and u2 are an upload and its repetition.                                 *)
EXTENDS FileDelivery

CONSTANTS u1, u2, u3, u4, k1, k3, gl, hr, ar

MCBindings == <<gl, hr, ar>>
MCStoreSets == {{gl, ar}, {gl, hr, ar}}
MCMatches == {<<gl, 1>>, <<gl, 3>>, <<hr, 2>>, <<hr, 3>>, <<ar, 3>>}
MCKind == <<"undated", "unreadable", "dated">>
MCKeyOf == (u1 :> 3) @@ (u2 :> 3) @@ (u3 :> 1) @@ (u4 :> 2)
MCIdemOf == (u1 :> k1) @@ (u2 :> k1) @@ (u3 :> k3) @@ (u4 :> NoKey)
=============================================================================
