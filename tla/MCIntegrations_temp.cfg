SPECIFICATION Spec
CONSTANTS
    erp = erp crm = crm gl = gl hr = hr gltab = gltab hrtab = hrtab note = note
    r1 = r1 r2 = r2 r3 = r3 r4 = r4
    Sources = {erp, crm}
    Bindings = {gl, hr}
    Targets = {gltab, hrtab}
    Hand = {note}
    HandTexts <- MCHandTexts
    Requests = {r1, r2, r3, r4}
    Verb <- MCVerb
    Entity <- MCEntity
    Others = {mcp}
    NoFile = NoFile
    MaxFaults = 2
INVARIANTS AlwaysLoadable
\* The system rests once every request is answered.
CHECK_DEADLOCK FALSE
