---------------------------- MODULE RateLimiting ----------------------------
(***************************************************************************)
(* Rate limiting of concurrent requests.  PreAuthRateLimitingMiddleware    *)
(* and, behind authentication, the ASP.NET Core rate limiting middleware   *)
(* each take a lease from a chain of limiters that                         *)
(* RateLimitRuleChainFactory builds from the rules of the application.     *)
(* Each link of a chain evaluates its rule when it is reached and then     *)
(* takes a permit from the limiter of the partition the rule selected.     *)
(*                                                                         *)
(* External, as the code uses them: the chained limiter of .NET takes the  *)
(* links in order and gives back what it took when one refuses or throws;  *)
(* the middleware of ASP.NET Core asks the chain a second time when the    *)
(* first attempt was refused; limiters do not queue, as in the defaults    *)
(* of the framework.                                                       *)
(***************************************************************************)
EXTENDS Integers, Sequences, FiniteSets, SequencesExt

CONSTANTS
  Requests,  \* the requests, each served once
  Rules,     \* the names of the registered rules
  Rule,      \* what is fixed about a rule, see RuleType
  MinOrder,  \* int.MinValue, the least Order
  Policies,  \* the policies that [EnableRateLimiting] names on endpoints
  DenyKey,   \* the partition key that rules put on the requests they deny
  Permits    \* the permits of a limiter

Client == "client"  \* the partition key of the other results
Global == "global"  \* the policy of an endpoint without [EnableRateLimiting],
                    \* and of a rule without PolicyName
Actions == {"skip", "allow", "deny", "limit", "limitAndStop"}
Phases == {"PreAuth", "PostAuth"}

RuleType == [order : Int, shortCircuit : BOOLEAN, scoped : BOOLEAN,
             index : Nat \ {0}, policy : Policies \cup {Global},
             kind : {"bucket", "concurrency"}, actions : SUBSET Actions]

ASSUME RateLimitingAssumption ==
  /\ Rule \in [Rules -> RuleType]
  /\ MinOrder \in Int
  /\ \A r, s \in Rules :
       /\ Rule[r].order >= MinOrder
       /\ Rule[r].index = Rule[s].index => r = s
       /\ Rule[r].scoped /\ ~Rule[s].scoped => Rule[s].index < Rule[r].index
  /\ IsFiniteSet(Rules)
  /\ Permits \in Nat \ {0}

VARIABLES
  pc,         \* where a request is, see TypeOK
  policy,     \* the policy of its endpoint, "disabled" with
              \* [DisableRateLimiting]
  phase,      \* the middleware that asks its chain
  link,       \* the next link of that chain
  selection,  \* RateLimitRuleSelection in HttpContext.Items
  leases,     \* for each phase, the limiters the request has permits of
  match,      \* local of PreAuthRateLimitingMiddleware
  limiters,   \* the limiters that exist, by partition
  active,     \* the gauge of active request leases, by its tag
  asked       \* history: for each phase, what the rules said in the last
              \* attempt

vars == <<pc, policy, phase, link, selection, leases, match, limiters,
          active, asked>>

NoRule == "none"
None == "none"  \* no link is left
NoMatch == [rule |-> NoRule, action |-> "skip"]
Matches == {NoMatch} \cup [rule : Rules, action : Actions \ {"skip"}]

NoSelection == [last |-> NoMatch, rejected |-> NoMatch, stop |-> FALSE]

-----------------------------------------------------------------------------
(* The chain.                                                              *)

(* The name of the first link, which clears the selection.                 *)
Reset == "selection-reset"

(* Links are told apart by name here, by identity in the code.             *)
ASSUME LinkNames == Rules \cap {Reset, None} = {}

(* Mutant: the link that clears the selection has no place of its own.     *)
ResetLast == [link |-> Reset, order |-> MinOrder, shortCircuit |-> FALSE,
              index |-> 0]

ResetEntry == [link |-> Reset, order |-> MinOrder, shortCircuit |-> TRUE,
               index |-> 0]

Entries(ph) ==
  {ResetEntry} \cup
  {[link |-> r, order |-> Rule[r].order,
    shortCircuit |-> Rule[r].shortCircuit, index |-> Rule[r].index] :
     r \in {s \in Rules : ph = "PostAuth" \/ ~Rule[s].scoped}}

EntryBefore(e, f) ==
  \/ e.order < f.order
  \/ e.order = f.order /\ e.shortCircuit /\ ~f.shortCircuit
  \/ e.order = f.order /\ e.shortCircuit = f.shortCircuit
                       /\ e.index < f.index

Chain ==
  [ph \in Phases |->
     CHOOSE s \in SetToSeqs(Entries(ph)) :
       \A i, j \in DOMAIN s : i < j => EntryBefore(s[i], s[j])]

IsPolicyMatch(q, r) == Rule[r].policy \in {Global, policy[q]}

(* RateLimitRulePartitionKey: its equality leaves out the action, so the   *)
(* limiter that the first result with a key made serves all of them.       *)
Partition(ph, r, action) ==
  [phase |-> ph, rule |-> r, key |-> IF action = "deny" THEN DenyKey
                                                        ELSE Client]

Made(r, action) == [kind |-> IF action = "deny" THEN "deny" ELSE Rule[r].kind,
                    left |-> IF action = "deny" THEN 0 ELSE Permits]

(* The limiters with the one of partition p, made now if there is none.    *)
WithLimiter(p, action) ==
  [x \in DOMAIN limiters \cup {p} |->
     IF x \in DOMAIN limiters THEN limiters[x] ELSE Made(p.rule, action)]

Taken(all, p) == [all EXCEPT ![p].left = @ - 1]

(* Disposing leases: concurrency permits come back, tokens do not.         *)
Returned(all, held) ==
  [p \in DOMAIN all |->
     IF p \in held /\ all[p].kind = "concurrency"
     THEN [all[p] EXCEPT !.left = @ + 1] ELSE all[p]]

-----------------------------------------------------------------------------
Init ==
  /\ pc = [q \in Requests |-> "coming"]
  /\ policy \in [Requests -> Policies \cup {Global, "disabled"}]
  /\ phase = [q \in Requests |-> "PreAuth"]
  /\ link = [q \in Requests |-> 1]
  /\ selection = [q \in Requests |-> NoSelection]
  /\ leases = [q \in Requests |-> [ph \in Phases |-> {}]]
  /\ match = [q \in Requests |-> NoMatch]
  /\ limiters = [p \in {} |-> <<>>]
  /\ active = [m \in Matches |-> 0]
  /\ asked = [q \in Requests |-> [ph \in Phases |-> <<>>]]

(* The middleware asks its chain from the first link on.                   *)
Ask(q, ph) ==
  /\ pc' = [pc EXCEPT ![q] = "asking"]
  /\ phase' = [phase EXCEPT ![q] = ph]
  /\ link' = [link EXCEPT ![q] = 1]

(* InvokeAsync begins: an endpoint without limits passes at once.          *)
Arrive(q) ==
  /\ pc[q] = "coming"
  /\ IF policy[q] = "disabled"
     THEN pc' = [pc EXCEPT ![q] = "serving"] /\ UNCHANGED <<phase, link>>
     ELSE Ask(q, "PreAuth")
  /\ selection' = [selection EXCEPT ![q] = NoSelection]
  /\ UNCHANGED <<policy, leases, match, limiters, active, asked>>

Asking(q) == pc[q] \in {"asking", "askingAgain"}

(* The link the request has reached, None after the last.                  *)
Link(q) ==
  IF link[q] <= Len(Chain[phase[q]]) THEN Chain[phase[q]][link[q]].link
                                     ELSE None

ClearSelection(q) ==
  /\ Asking(q) /\ Link(q) = Reset
  /\ selection' = [selection EXCEPT ![q] = NoSelection]
  /\ link' = [link EXCEPT ![q] = @ + 1]
  /\ asked' = [asked EXCEPT ![q][phase[q]] = <<>>]
  /\ UNCHANGED <<pc, policy, phase, leases, match, limiters, active>>

(* A rule is not asked: an earlier one stopped the rest, or its policy is  *)
(* not the one of the endpoint.                                            *)
PassBy(q) ==
  /\ Asking(q) /\ Link(q) \in Rules
  /\ selection[q].stop \/ ~IsPolicyMatch(q, Link(q))
  /\ link' = [link EXCEPT ![q] = @ + 1]
  /\ UNCHANGED <<pc, policy, phase, selection, leases, match, limiters,
                 active, asked>>

(* The rule of the link is asked and says action.                          *)
Evaluate(q, action) ==
  /\ Asking(q) /\ Link(q) \in Rules
  /\ ~selection[q].stop /\ IsPolicyMatch(q, Link(q))
  /\ action \in Rule[Link(q)].actions
  /\ asked' = [asked EXCEPT ![q][phase[q]] =
                 Append(@, [rule |-> Link(q), action |-> action])]

(* SetRateLimitRuleMatch and StopRemainingRateLimitRules.                  *)
Select(q, action, rejected) ==
  selection' = [selection EXCEPT ![q] =
    [last |-> [rule |-> Link(q), action |-> action],
     rejected |-> IF rejected THEN [rule |-> Link(q), action |-> action]
                              ELSE @.rejected,
     stop |-> \/ @.stop \/ Rule[Link(q)].shortCircuit
              \/ action \in {"allow", "deny", "limitAndStop"}]]

(* Mutant: a rule that does not apply is recorded as the match.            *)
SkipSelected(q) ==
  /\ Evaluate(q, "skip")
  /\ Select(q, "skip", FALSE)
  /\ link' = [link EXCEPT ![q] = @ + 1]
  /\ UNCHANGED <<pc, policy, phase, leases, match, limiters, active>>

Skip(q) ==
  /\ Evaluate(q, "skip")
  /\ link' = [link EXCEPT ![q] = @ + 1]
  /\ UNCHANGED <<pc, policy, phase, selection, leases, match, limiters, active>>

Allow(q) ==
  /\ Evaluate(q, "allow")
  /\ Select(q, "allow", FALSE)
  /\ link' = [link EXCEPT ![q] = @ + 1]
  /\ UNCHANGED <<pc, policy, phase, leases, match, limiters, active>>

(* The limiter of the partition has a permit.                              *)
Acquire(q, action) ==
  LET p == Partition(phase[q], Link(q), action)
      all == WithLimiter(p, action)
  IN /\ action \in {"deny", "limit", "limitAndStop"}
     /\ Evaluate(q, action)
     /\ all[p].left > 0
     /\ Select(q, action, FALSE)
     /\ limiters' = Taken(all, p)
     /\ leases' = [leases EXCEPT ![q][phase[q]] = @ \cup {p}]
     /\ link' = [link EXCEPT ![q] = @ + 1]
     /\ UNCHANGED <<pc, policy, phase, match, active>>

(* It has none: the attempt ends and what it took goes back.  Before       *)
(* authentication the request is rejected; behind it, the middleware of    *)
(* ASP.NET Core tries a second time before it is.                          *)
Refuse(q, action) ==
  LET p == Partition(phase[q], Link(q), action)
      all == WithLimiter(p, action)
  IN /\ action \in {"deny", "limit", "limitAndStop"}
     /\ Evaluate(q, action)
     /\ all[p].left = 0
     /\ Select(q, action, TRUE)
     /\ limiters' = Returned(all, leases[q][phase[q]])
     /\ leases' = [leases EXCEPT ![q][phase[q]] = {}]
     /\ link' = [link EXCEPT ![q] = 1]
     /\ pc' = [pc EXCEPT ![q] =
                 CASE phase[q] = "PreAuth" -> "done"
                   [] phase[q] = "PostAuth" /\ @ = "asking" -> "askingAgain"
                   [] OTHER -> "leaving"]
     /\ UNCHANGED <<policy, phase, match, active>>

(* The rule throws, or the client has gone: the exception leaves the chain *)
(* and the middleware.                                                     *)
Fail(q) ==
  /\ Asking(q) /\ Link(q) # None
  /\ limiters' = Returned(limiters, leases[q][phase[q]])
  /\ leases' = [leases EXCEPT ![q][phase[q]] = {}]
  /\ pc' = [pc EXCEPT ![q] = IF phase[q] = "PreAuth" THEN "done"
                                                     ELSE "leaving"]
  /\ UNCHANGED <<policy, phase, link, selection, match, active, asked>>

(* Behind the last link of the first chain: the gauge goes up.             *)
Admit(q) ==
  /\ Asking(q) /\ Link(q) = None /\ phase[q] = "PreAuth"
  /\ match' = [match EXCEPT ![q] = selection[q].last]
  /\ active' = [active EXCEPT ![selection[q].last] = @ + 1]
  /\ pc' = [pc EXCEPT ![q] = "authenticating"]
  /\ UNCHANGED <<policy, phase, link, selection, leases, limiters, asked>>

(* Authentication passes the request on, or answers it or throws.          *)
Authenticate(q) ==
  /\ pc[q] = "authenticating"
  /\ Ask(q, "PostAuth")
  /\ UNCHANGED <<policy, selection, leases, match, limiters, active, asked>>

AnswerEarly(q) ==
  /\ pc[q] = "authenticating"
  /\ pc' = [pc EXCEPT ![q] = "leaving"]
  /\ UNCHANGED <<policy, phase, link, selection, leases, match, limiters,
                 active, asked>>

AdmitPostAuth(q) ==
  /\ Asking(q) /\ Link(q) = None /\ phase[q] = "PostAuth"
  /\ pc' = [pc EXCEPT ![q] = "serving"]
  /\ UNCHANGED <<policy, phase, link, selection, leases, match, limiters,
                 active, asked>>

(* The endpoint answers or throws; the second middleware gives its leases  *)
(* back.                                                                   *)
Respond(q) ==
  /\ pc[q] = "serving"
  /\ limiters' = Returned(limiters, leases[q]["PostAuth"])
  /\ leases' = [leases EXCEPT ![q]["PostAuth"] = {}]
  /\ pc' = [pc EXCEPT ![q] = IF policy[q] = "disabled" THEN "done"
                                                       ELSE "leaving"]
  /\ UNCHANGED <<policy, phase, link, selection, match, active, asked>>

(* Mutant: the gauge goes down under the rule that matched last.           *)
LeaveUnderLastMatch(q) ==
  /\ pc[q] = "leaving"
  /\ active' = [active EXCEPT ![selection[q].last] = @ - 1]
  /\ limiters' = Returned(limiters, leases[q]["PreAuth"])
  /\ leases' = [leases EXCEPT ![q]["PreAuth"] = {}]
  /\ pc' = [pc EXCEPT ![q] = "done"]
  /\ UNCHANGED <<policy, phase, link, selection, match, asked>>

(* Mutant: the lease of the first middleware is never disposed.            *)
LeaveWithLease(q) ==
  /\ pc[q] = "leaving"
  /\ active' = [active EXCEPT ![match[q]] = @ - 1]
  /\ leases' = [leases EXCEPT ![q]["PreAuth"] = {}]
  /\ pc' = [pc EXCEPT ![q] = "done"]
  /\ UNCHANGED <<policy, phase, link, selection, match, limiters, asked>>

(* The finally block and the using of InvokeAsync.                         *)
Leave(q) ==
  /\ pc[q] = "leaving"
  /\ active' = [active EXCEPT ![match[q]] = @ - 1]
  /\ limiters' = Returned(limiters, leases[q]["PreAuth"])
  /\ leases' = [leases EXCEPT ![q]["PreAuth"] = {}]
  /\ pc' = [pc EXCEPT ![q] = "done"]
  /\ UNCHANGED <<policy, phase, link, selection, match, asked>>

(* The timer of a token bucket.                                            *)
Replenish(p) ==
  /\ p \in DOMAIN limiters
  /\ limiters[p].kind = "bucket" /\ limiters[p].left < Permits
  /\ limiters' = [limiters EXCEPT ![p].left = Permits]
  /\ UNCHANGED <<pc, policy, phase, link, selection, leases, match, active,
                 asked>>

(* A limiter that stays idle is removed; a denying one is never idle.      *)
Evict(p) ==
  /\ p \in DOMAIN limiters
  /\ limiters[p].kind # "deny" /\ limiters[p].left = Permits
  /\ limiters' = [x \in DOMAIN limiters \ {p} |-> limiters[x]]
  /\ UNCHANGED <<pc, policy, phase, link, selection, leases, match, active,
                 asked>>

RequestStep(q) ==
  \/ Arrive(q) \/ ClearSelection(q) \/ PassBy(q)
  \/ Skip(q) \/ Allow(q) \/ Fail(q)
  \/ \E action \in Actions : Acquire(q, action) \/ Refuse(q, action)
  \/ Admit(q) \/ Authenticate(q) \/ AnswerEarly(q)
  \/ AdmitPostAuth(q) \/ Respond(q) \/ Leave(q)

Next ==
  \/ \E q \in Requests : RequestStep(q)
  \/ \E p \in DOMAIN limiters : Replenish(p) \/ Evict(p)

Spec == Init /\ [][Next]_vars

-----------------------------------------------------------------------------
Partitions == [phase : Phases, rule : Rules, key : {Client, DenyKey}]

(* Type invariant: the permits of a limiter stay between 0 and their       *)
(* limit, and only results that matched are recorded as matches.           *)
TypeOK ==
  /\ pc \in [Requests -> {"coming", "asking", "askingAgain",
                          "authenticating", "serving", "leaving", "done"}]
  /\ phase \in [Requests -> Phases]
  /\ \A q \in Requests :
       /\ selection[q].last \in Matches /\ match[q] \in Matches
       /\ \A ph \in Phases : leases[q][ph] \subseteq Partitions
  /\ DOMAIN limiters \subseteq Partitions
  /\ \A p \in DOMAIN limiters : limiters[p].left \in 0..Permits
  /\ active \in [Matches -> Int]

(* The phases whose chain the request has passed.                          *)
Passed(q) ==
  CASE pc[q] = "serving" /\ policy[q] # "disabled" -> Phases
    [] pc[q] = "authenticating" \/ (Asking(q) /\ phase[q] = "PostAuth") ->
         {"PreAuth"}
    [] OTHER -> {}

(* A request that passed a phase was refused by no rule of that phase in   *)
(* its last attempt.  The README of DRN.Framework.Hosting says of a deny   *)
(* result: "Rejects immediately with 429." (README.md:538).                *)
DeniedIsRejected ==
  \A q \in Requests : \A ph \in Passed(q) :
    \A i \in DOMAIN asked[q][ph] : asked[q][ph][i].action # "deny"

Ends(said) ==
  \/ said.action \in {"allow", "limitAndStop"}
  \/ said.action = "limit" /\ Rule[said.rule].shortCircuit

Precedes(r, s) ==
  \/ Rule[r].order < Rule[s].order
  \/ Rule[r].order = Rule[s].order
       /\ (Rule[s].shortCircuit => Rule[r].shortCircuit)

Concerned(q, ph) ==
  {r \in Rules : IsPolicyMatch(q, r) /\ (Rule[r].scoped => ph = "PostAuth")}

(* Rules apply in ascending order, a short-circuiting one before the       *)
(* others of its order, and a request that passed a phase was judged by    *)
(* all of them that concern it, unless one ended the matter: none is       *)
(* passed over because of what an earlier attempt left behind.             *)
OnlyJudgedAreServed ==
  /\ DeniedIsRejected
  /\ \A q \in Requests : \A ph \in Passed(q) :
       LET said == asked[q][ph]
           by == {said[i].rule : i \in DOMAIN said}
       IN /\ \A i, j \in DOMAIN said :
               i < j => ~Ends(said[i]) /\ Precedes(said[i].rule, said[j].rule)
          /\ \A r \in Concerned(q, ph) \ by :
               /\ said # <<>> /\ Ends(Last(said))
               /\ Precedes(Last(said).rule, r)

(* The gauge of active leases counts, under each rule, the requests that   *)
(* were admitted under it and have not left, however their processing      *)
(* ends and whatever the second chain selects meanwhile.                   *)
GaugeCountsAdmitted ==
  \A m \in Matches :
    active[m] = Cardinality({q \in Requests :
                  /\ match[q] = m
                  /\ \/ pc[q] \in {"authenticating", "leaving"}
                     \/ pc[q] = "serving" /\ policy[q] # "disabled"
                     \/ Asking(q) /\ phase[q] = "PostAuth"})

(* No permit of a concurrency limiter is lost or given twice: what it has  *)
(* left and what requests hold add up, also after refused, failed and      *)
(* repeated attempts.                                                      *)
PermitsComeBack ==
  \A p \in DOMAIN limiters :
    limiters[p].kind = "concurrency" =>
      limiters[p].left =
        Permits - Cardinality({q \in Requests : \E ph \in Phases :
                                 p \in leases[q][ph]})

=============================================================================
