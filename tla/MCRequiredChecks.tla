-------------------------- MODULE MCRequiredChecks --------------------------
(* Small instances of RequiredChecks for TLC: two repositories, an old and *)
(* a new version of the file, and one ruleset of each kind that matters.   *)
EXTENDS RequiredChecks

MCOrder == <<"api", "platform">>
MCModeOf ==
  [u \in Invocations |-> CASE u = "dry" -> "--dry-run"
                           [] u = "check" -> "--live"
                           [] OTHER -> "--apply"]
MCWantedBy ==
  [u \in Invocations |->
    IF u = "older" THEN [r \in Repos |-> {"quality"}]
    ELSE [api |-> {"quality", "image"}, platform |-> {"topology"}]]

Good(checks) == [copies |-> 1, hasRule |-> TRUE, checks |-> checks,
                 guards |-> TRUE, other |-> "strict"]
MCFound ==
  { Good({"quality", "image"}), Good({"topology"}), Good({"quality", "topology"}),
    [Good({"quality", "image"}) EXCEPT !.copies = 2],
    [Good({}) EXCEPT !.copies = 0],
    [Good({"topology"}) EXCEPT !.guards = FALSE],
    [Good({"topology"}) EXCEPT !.other = "loose"],
    [Good({}) EXCEPT !.hasRule = FALSE] }
=============================================================================
