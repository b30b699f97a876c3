----------------------------- MODULE MC_Commands -----------------------------
(* Instances of QuoteCommands: a draft that is created, edited by two      *)
(* requests, issued, cancelled and mailed under six idempotency keys, two  *)
(* requests being handled at a time; or one create-and-issue.  And,        *)
(* evaluated before the run, the samples of the reads.                     *)
EXTENDS QuoteCommands, ReadSamples, TLC

CONSTANTS q1, q2, s1, s2, create, issueNew, edit, ship, issue, cancel, mail, owner, reader, a, b

MCQuotes == {q1}
MCTwoQuotes == {q1, q2}
MCSessions == {s1, s2}
MCScopes == {create, issueNew, edit, ship, issue, cancel, mail}
MCOperation ==
    (create :> "draft_create") @@ (issueNew :> "create_and_issue") @@ (edit :> "draft_update") @@ (ship :> "draft_update")
    @@ (issue :> "issue") @@ (cancel :> "cancel") @@ (mail :> "delivery_email")
MCPrincipal == [sc \in MCScopes |-> IF sc = mail THEN reader ELSE owner]
MCReaders == {reader}
MCValues == {a, b}

Body(q, expected, parts) ==
    [quote |-> q, expected |-> expected, parts |-> parts, totals |-> Unstated, valid |-> TRUE]

MCRequests ==
    (create :> {Body(NoQuote, 0, "lines" :> a @@ "shipping" :> Nothing)})
    @@ (issueNew :> {Body(NoQuote, 0, "lines" :> a)})
    @@ (edit :> {Body(q1, 1, "lines" :> b)})
    @@ (ship :> {Body(q1, 1, "shipping" :> a), Body(q1, 2, "shipping" :> a)})
    @@ (issue :> {Body(q1, 1, Unstated), Body(q1, 2, Unstated)})
    @@ (cancel :> {Body(q1, 2, Unstated)})
    @@ (mail :> {Body(q1, 0, Unstated)})

(* The instance is the union of two: the life of a draft at one instant,   *)
(* without e-mail, and the life of a quote created and issued at once, as  *)
(* time passes.                                                            *)
Drafting == {create, edit, ship, issue}
Used(sc) == Bound(sc) \/ \E s \in Sessions : session[s].scope = sc
Narrow ==
    /\ (\E sc \in Drafting : Used(sc)) => now = 0 /\ ~Used(mail)
    /\ Used(edit) \/ Used(ship) => ~Used(issueNew)
MCSpec == Init /\ [][Next /\ Narrow']_vars

MCSymmetry == Permutations(MCSessions)
=============================================================================
