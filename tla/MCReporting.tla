---------------------------- MODULE MCReporting -----------------------------
EXTENDS Discovery

Sum0(sign, accounts, rollup, hide) ==
  [base |-> TRUE, domain |-> "pnl", rollup |-> rollup, sign |-> sign,
   accounts |-> accounts, hide_if_zero |-> hide]
Formula(op, x, y) == [base |-> FALSE, op |-> op, args |-> <<x, y>>, hide_if_zero |-> FALSE]

MCMetrics ==
  [revenue |-> Sum0("raw", {"r"}, "sum", FALSE), cost |-> Sum0("negate", {"c"}, "sum", TRUE),
   upkeep |-> Sum0("abs", {"c"}, "avg", FALSE),  staff |-> Sum0("raw", {"h"}, "closing", FALSE),
   shifts |-> [Sum0("raw", {"r"}, "sum", FALSE) EXCEPT !.domain = "hours"],
   margin |-> Formula("minus", "revenue", "cost"), share |-> Formula("over", "margin", "revenue")]

MCDomains == [pnl |-> [dims |-> {"period", "cost_centre"}, versioned |-> TRUE],
              hours |-> [dims |-> {"person"}, versioned |-> FALSE]]
MCAbove   == [period |-> {"quarter", "fiscal_year"}, cost_centre |-> {"division"}]

MCUniverse   == [cost_centre |-> {"a", "b", "c"}]
MCDivisionOf == [a |-> "one", b |-> "one", c |-> "two"]
MCDimensions ==
  [cost_centre |-> [leaf |-> "cost_centre", under |-> [x \in {"a", "b", "c"} |-> {x}]],
   division    |-> [leaf |-> "cost_centre", under |-> [one |-> {"a", "b"}, two |-> {"c"}]],
   tree        |-> [leaf |-> "cost_centre", under |-> [root |-> {"a", "b", "c"}, left |-> {"b", "c"}]]]

MCCommits == <<"c1", "c2">>

ACT == <<"ACT">>  BUD == <<"BUD">>  STR == <<"STR">>
Row(id, alias, parent, kind) == [id |-> id, alias |-> alias, parent |-> parent, kind |-> kind]
MCScenarios == {Row(ACT, <<"actuals">>, NoKey, "ACTUAL"), Row(BUD, <<"budget">>, NoKey, "BUDGET"),
                Row(STR, <<"stretch">>, BUD, "BUDGET")}
MCAdditions == {Row(<<"FC">>, <<"forecast">>, NoKey, "FORECAST"), Row(<<"B2">>, <<"budget">>, NoKey, "BUDGET")}

\* Months 12 and 14 are January and March of one year, 24 to 27 January to
\* April of the next.
Fact(scn, month, cc, acc, amt, commit) ==
  [domain |-> "pnl", scn |-> scn, month |-> month, cc |-> cc, acc |-> acc, amt |-> amt, commit |-> commit]
Table(x) ==
  {Fact(ACT, 12, "a", "r", 50, "actuals"), Fact(ACT, 14, "a", "c", -7, "actuals"), Fact(ACT, 15, "c", "h", 4, "actuals"),
   Fact(ACT, 24, "a", "r", 80 + x, "actuals"), Fact(ACT, 24, "b", "c", -30, "actuals"),
   Fact(ACT, 25, "c", "r", 20 + x, "actuals"), Fact(ACT, 26, "a", "h", 5, "actuals"), Fact(ACT, 26, "a", "c", -9, "actuals"),
   Fact(ACT, 27, "c", "h", 6 + x, "actuals"), Fact(ACT, 27, "a", "h", 3, "actuals"),
   Fact(BUD, 24, "a", "r", 70, "c1"), Fact(BUD, 24, "c", "r", 11, "c2"), Fact(BUD, 27, "b", "h", 8, "c1"),
   Fact(BUD, 25, "b", "c", -25 - x, "uncommitted"),
   [Fact(ACT, 24, "a", "r", 9, "") EXCEPT !.domain = "hours"],
   Fact(STR, 24, "a", "r", 100 + x, "c1"), Fact(STR, 26, "c", "c", -40, "c1")}
MCTables == <<Table(0), Table(1)>>
-----------------------------------------------------------------------------
Scope(allow, deny) == [allow |-> allow, deny |-> deny, domains |-> {"pnl"}]
Nothing == [d \in {} |-> {}]
Free     == (<<"*">> :> [analyst |-> Unrestricted])
Limited  == (<<"*">> :> [manager |-> Scope([division |-> {"one"}], [cost_centre |-> {"b"}])])
ByKind   == (<<"ACTUAL">> :> [analyst |-> Scope(Nothing, [tree |-> {"left"}])])
              @@ (<<"PLAN">> :> [planner |-> Scope([cost_centre |-> {"a"}], Nothing)])
Uneven   == (<<"*">> :> [planner |-> Unrestricted, analyst |-> Scope([division |-> {"one"}], Nothing)])
              @@ (STR :> [analyst |-> Unrestricted])
Split    == (<<"ACTUAL">> :> [analyst |-> Scope(Nothing, [tree |-> {"left"}])])
              @@ (<<"*">> :> [analyst |-> Scope([cost_centre |-> {"c"}], Nothing)])
OnlyActuals == <<"ACTUAL">> :> [analyst |-> Unrestricted]
NoHours  == (<<"*">> :> [analyst |-> [Scope(Nothing, [division |-> {"two"}]) EXCEPT !.domains = {"hours"}]])

Ref(key, mods)  == [key |-> key, mods |-> mods]
Mod(name, value) == <<[name |-> name, value |-> value]>>
Block(items, ref, name) == [items |-> items, ref |-> ref, name |-> name]
actuals == Ref(<<"actuals">>, << >>)          lastYear == Ref(<<"prior", "year">>, << >>)
budget  == Ref(<<"budget">>, << >>)           lastMonth == Ref(<<"actuals", "pp">>, << >>)
yearAgo == Ref(<<"actuals", "py">>, << >>)
gap     == Ref(<<"actuals", "vs", "budget">>, << >>)
growth  == Ref(<<"actuals", "vs", "actuals", "py", "pct">>, << >>)
Mine == Mod("uncommitted", NoKey)               Late == Mod("commit", "c1")

Grains(d, s, g) == [detail |-> d, subtotals |-> s, grand_total |-> g]
Ask(dims, grains, items, refs, wanted, profile) ==
  [from |-> 24, to |-> 27, dims |-> dims, strict |-> TRUE, grains |-> grains,
   blocks |-> [i \in DOMAIN refs |-> Block(items, refs[i], NoName)],
   filter |-> wanted, profile |-> profile]

NoneAsked == [d \in {} |-> "x"]
MCStatements == [pnl_lines |-> <<"income", "separator", "ratios">>, income |-> <<"revenue", "separator", "cost">>,
                 ratios |-> <<"margin", "share">>]
Lines   == <<"pnl_lines">>
Balance == <<"staff", "upkeep">>
All     == Grains(TRUE, TRUE, TRUE)
Shapes  == {<< << >>, Grains(TRUE, FALSE, FALSE)>>, << <<"cost_centre", "period">>, All>>,
            << <<"quarter">>, Grains(TRUE, FALSE, TRUE)>>, << <<"division", "fiscal_year">>, All>>}
Sheets  == {<<Lines, <<actuals, yearAgo, growth>> >>, <<Balance, <<lastYear, gap, budget>> >>}

MCRequests ==
  {Ask(s[1], s[2], sheet[1], sheet[2], NoneAsked, Free) : s \in Shapes, sheet \in Sheets}
  \cup {Ask(<<"cost_centre">>, Grains(TRUE, FALSE, TRUE), Lines, refs, wanted, profile)
        : refs \in {<<gap>>, <<actuals>>, <<Ref(<<"stretch">>, << >>), budget>>},
          wanted \in {NoneAsked, [division |-> "one", tree |-> "left"], [cost_centre |-> "c"]},
          profile \in {Limited, ByKind, Uneven, NoHours}}
  \cup {Ask(<<"period">>, Grains(TRUE, FALSE, FALSE), Lines, <<ref>>, NoneAsked, Free)
        : ref \in {lastMonth, Ref(BUD, Mod("uncommitted", NoKey)), Ref(<<"budget">>, Mod("uncommitted_delta", NoKey)),
                   Ref(<<"budget">>, Mod("commit", "c1")), Ref(<<"budget">>, Mod("commit_delta", "c2")),
                   Ref(gap.key, Mod("uncommitted", NoKey)), Ref(<<"forecast">>, << >>),
                   Ref(<<"budget">>, Mod("other", NoKey))}}
  \cup {Ask(<<"period">>, Grains(TRUE, FALSE, FALSE), Lines, <<ref>>, NoneAsked, profile)
        : ref \in {Ref(<<"stretch">>, Mod("fork", NoKey)), Ref(<<"budget">>, Mod("fork", NoKey)), Ref(<<"budget">>, Mod("fork", ACT))},
          profile \in {Free, Uneven}}
  \cup {[Ask(<<"cost_centre">>, All, Lines, <<actuals, actuals>>, NoneAsked, Free) EXCEPT !.blocks[2].name = "again"],
        Ask(<<"cost_centre">>, All, Lines, <<actuals, actuals>>, NoneAsked, Free),
        Ask(<<"period">>, All, Lines, <<budget, Ref(BUD, << >>)>>, NoneAsked, Free),
        Ask(<<"period">>, All, Lines, <<Ref(BUD, Late \o Mine), Ref(BUD, Mine \o Late)>>, NoneAsked, Free),
        Ask(<< >>, Grains(TRUE, FALSE, FALSE), <<"shifts">>, <<actuals>>, [division |-> "one"], Free),
        Ask(<<"period">>, All, Lines, <<NoRef>>, NoneAsked, Split),
        Ask(<<"galaxy">>, All, Lines, <<actuals>>, NoneAsked, OnlyActuals),
        Ask(<<"period">>, All, Lines, <<budget>>, NoneAsked, OnlyActuals),
        Ask(<<"person">>, All, <<"revenue">>, <<actuals>>, NoneAsked, Free),
        [Ask(<<"person">>, Grains(TRUE, FALSE, TRUE), Lines, <<actuals>>, NoneAsked, Free) EXCEPT !.strict = FALSE],
        Ask(<<"period">>, All, <<"nothing">>, <<actuals>>, NoneAsked, Free),
        Ask(<<"period">>, All, Lines, <<actuals>>, [division |-> "three"], Free),
        [Ask(<<"period">>, All, Lines, <<actuals>>, NoneAsked, Free) EXCEPT !.to = 20]}
=============================================================================
