--------------------------- MODULE MCIntegrations ---------------------------
(* Two sources, two bindings, two targets; a binding is created, moved to   *)
(* another target, and deleted; its source is deleted.                      *)
EXTENDS Integrations, TLC

CONSTANTS erp, crm, gl, hr, gltab, hrtab, note, r1, r2, r3, r4

MCVerb == (r1 :> "create") @@ (r2 :> "update") @@ (r3 :> "delete") @@ (r4 :> "delete")
MCEntity == (r1 :> BindingEntity(hr, erp, gltab)) @@ (r2 :> BindingEntity(gl, crm, gltab))
         @@ (r3 :> BindingEntity(gl, erp, gltab)) @@ (r4 :> SourceEntity(crm))
MCHandTexts == {NoFile, Invalid, BindingEntity(hr, crm, hrtab)}
=============================================================================
