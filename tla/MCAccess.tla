------------------------------ MODULE MCAccess ------------------------------
(***************************************************************************)
(* The demo fund, two daily sandbox funds, two partners of which one has no *)
(* commitment to the first daily fund, and requests that are refused or     *)
(* served for every reason there is.                                        *)
(***************************************************************************)
EXTENDS Access, TLC

MCUser == {"sandbox", "partner"}
MCFund == {"demo", "day1", "day2"}
MCDailyFund == <<"day1", "day2">>
MCDemoUser == [LP |-> "partner"]
MCLp == {"kelvin", "arran"}
MCCommitted == {<<"demo", "kelvin">>, <<"demo", "arran">>, <<"day1", "kelvin">>}
MCObjectFund == [transfer |-> "day1"]

Ask(view, id) == [view |-> view, id |-> id, lp |-> None]
Statement(f, lp) == [view |-> "statement", id |-> f, lp |-> lp]
MCRequest ==
    {Ask("reverse", "transfer"), Ask("reverse", "no such transfer"),
     Statement("demo", "kelvin"), Statement("day1", "arran")}

Symmetry == Permutations(Worker)
=============================================================================
