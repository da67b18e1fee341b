----------------------------- MODULE GateProofs -----------------------------
(***************************************************************************)
(* Proofs about Gate: every environment the server starts with decides     *)
(* every request soundly, and the cached lookup lets in or turns away on   *)
(* news of a bounded age.                                                  *)
(*                                                                         *)
(* The bound is not inductive as it stands: it rests on what an answer is  *)
(* worth while it is kept (Kept) and while it travels (Told), and on a     *)
(* woken caller going on before the answer that woke it runs out (Fresh).  *)
(***************************************************************************)
EXTENDS Gate, TLAPS

\* What the arithmetic of the lookup needs of the constants.
LEMMA HorizonNat == Horizon \in Nat /\ Keep \in Nat /\ KeepNone \in Nat /\ Timeout \in Nat
                    /\ KeepNone > 0 /\ Keep > 0 /\ KeepNone <= Keep /\ Horizon = Keep + Timeout
  BY GateAssumption DEF Horizon

----------------------------------------------------------------------------
(* The verdict. *)

\* What the client wrote under the peer header is overwritten.
LEMMA StampedAnyway ==
    ASSUME NEW e \in Env, NEW r \in Request, NEW p \in Addrs
    PROVE  Stamped(e, [r EXCEPT !.claim = p]) = Stamped(e, r)
  BY DEF Stamped, Request

\* What an untrusted client wrote as forwarded is dropped.
LEMMA ForwardedDropped ==
    ASSUME NEW e \in Env, NEW r \in Request, NEW p \in Addrs, r.peer \notin e.trusted
    PROVE  Stamped(e, [r EXCEPT !.claim = p, !.forwarded = p]) = Stamped(e, r)
  BY DEF Stamped, Request

\* No decision reads what was forwarded.
LEMMA VerdictOf ==
    ASSUME NEW e \in Env, NEW r \in Request, NEW p \in Addrs
    PROVE  Verdict(e, [r EXCEPT !.claim = p, !.forwarded = p]) = Verdict(e, r)
<1> DEFINE q == [r EXCEPT !.claim = p, !.forwarded = p]
           s == Stamped(e, r)
           t == Stamped(e, q)
<1>1. /\ s.verb = t.verb /\ s.path = t.path /\ s.bearer = t.bearer /\ s.cookie = t.cookie
      /\ s.claim = t.claim /\ s.prefix = t.prefix /\ s.user = t.user /\ s.mark = t.mark
  BY DEF Stamped, Request
<1>2. Bearer(e, s) = Bearer(e, t) /\ Ambient(e, s) = Ambient(e, t)
  BY <1>1 DEF Bearer, Ambient, FromIngress, Ingress
<1>3. Authenticate(e, s) = Authenticate(e, t)
  BY <1>1, <1>2 DEF Authenticate
<1>4. Marked(Authenticate(e, s), s) = Marked(Authenticate(e, t), t)
  BY <1>1, <1>3 DEF Marked
<1> QED
  BY <1>1, <1>3, <1>4 DEF Verdict

\* With a bearer, the ambient credentials are not looked at.
LEMMA BearerDecides ==
    ASSUME NEW e \in Env, NEW r \in Request
    PROVE  OneCredentialDecides(e, r)
<1> DEFINE q == [r EXCEPT !.cookie = "none", !.prefix = FALSE, !.user = NoUser]
           s == Stamped(e, r)
           t == Stamped(e, q)
<1> SUFFICES ASSUME r.bearer # "none" PROVE Verdict(e, r) = Verdict(e, q)
  BY DEF OneCredentialDecides
<1>1. /\ s.verb = t.verb /\ s.path = t.path /\ s.bearer = t.bearer
      /\ s.mark = t.mark /\ s.bearer # "none"
  BY DEF Stamped, Request
<1>2. Authenticate(e, s) = Authenticate(e, t)
  BY <1>1 DEF Authenticate, Bearer
<1>3. Marked(Authenticate(e, s), s) = Marked(Authenticate(e, t), t)
  BY <1>1, <1>2 DEF Marked
<1> QED
  BY <1>1, <1>2, <1>3 DEF Verdict

LEMMA ClaimsHold ==
    ASSUME NEW e \in Env, NEW r \in Request
    PROVE  ClaimsDontCount(e, r)
  BY VerdictOf, ForwardedDropped DEF ClaimsDontCount, Address

LEMMA OpenHolds ==
    ASSUME NEW e \in Env, NEW r \in Request, ~BootProblem(e)
    PROVE  OpenByChoice(e, r)
<1> DEFINE s == Stamped(e, r)
<1>1. s.verb = r.verb /\ s.path = r.path
  BY DEF Stamped, Request
<1>2. Authenticate(e, s) # "open"
  BY DEF Authenticate, Bearer, Ambient, Ingress
<1>3. ASSUME ~Guarded(e) PROVE e.allowOpen /\ ~InsideAddon(e)
  BY <1>3 DEF Guarded, BootProblem, NoSecret
<1> QED
  BY <1>1, <1>2, <1>3 DEF OpenByChoice, Verdict

LEMMA MarkHolds ==
    ASSUME NEW e \in Env, NEW r \in Request
    PROVE  AmbientIsMarked(e, r)
<1> DEFINE s == Stamped(e, r)
<1>1. s.verb = r.verb /\ s.path = r.path /\ s.mark = r.mark
  BY DEF Stamped, Request
<1> QED
  BY <1>1 DEF AmbientIsMarked, Verdict, Marked

LEMMA IngressHolds ==
    ASSUME NEW e \in Env, NEW r \in Request
    PROVE  IngressIsIngress(e, r)
<1> DEFINE s == Stamped(e, r)
<1>1. s.claim = r.peer /\ s.bearer = r.bearer /\ s.user = r.user
  BY DEF Stamped, Request
<1>2. ASSUME Authenticate(e, s) \in {"ingress", "ask", "named"}
      PROVE  /\ r.bearer = "none" /\ FromIngress(e, s)
             /\ Authenticate(e, s) = Ingress(e, s)
  BY <1>1, <1>2 DEF Authenticate, Bearer, Ambient
<1>3. Verdict(e, r) \in {"ingress", "ask", "named"} => Verdict(e, r) = Authenticate(e, s)
  BY DEF Verdict
<1> QED
  BY <1>1, <1>2, <1>3 DEF IngressIsIngress, FromIngress, Ingress

----------------------------------------------------------------------------
(* Who sees whom. *)

LEMMA LedgerRows ==
    ASSUME NEW a \in Ledgers, NEW i \in Rows
    PROVE  a[i] \in Who
  BY SightAssumption

\* The floor keeps every trace item out of what is remembered of a dig.
LEMMA NothingRemembered == ASSUME NEW d, NEW a PROVE Top(d, a) = {}
  BY DEF Top, TraceItems, ScoreTrace, ConfidentFloor

\* What a client calls itself is in the timeline, which is everyone's.
LEMMA AgentsArePublic ==
    ASSUME NEW a, NEW b, Public(a) = Public(b), NEW i \in Rows
    PROVE  a[i].agent = b[i].agent
<1>1. Timeline(a) = Timeline(b)
  BY DEF Public
<1>2. [row |-> i, client |-> a[i].agent] \in Timeline(a)
  BY DEF Timeline
<1>3. PICK k \in Rows : [row |-> i, client |-> a[i].agent] = [row |-> k, client |-> b[k].agent]
  BY <1>1, <1>2 DEF Timeline
<1> QED
  BY <1>3

\* A caller to whom the names a handler shows are the same sees the same.
LEMMA SameView ==
    ASSUME NEW c, NEW a, NEW b, Public(a) = Public(b),
           TraceOf(c, a) = TraceOf(c, b), ListDigs(c, a) = ListDigs(c, b),
           CallLog(c, a) = CallLog(c, b), RawPage(c, a) = RawPage(c, b),
           Groups(c, a) = Groups(c, b)
    PROVE  View(c, a) = View(c, b)
<1>1. DigCalls(c, a) = DigCalls(c, b)
  BY AgentsArePublic DEF DigCalls
<1>2. TraceItems(c, a) = TraceItems(c, b)
  BY DEF TraceItems
<1> QED
  BY <1>1, <1>2, NothingRemembered DEF View

\* With traces:read: the groups are the same sets of rows under other names.
LEMMA ScopedSeesNoPerson ==
    ASSUME NEW c \in Caller, c.method = "oauth", c.reads,
           NEW a \in Ledgers, NEW b \in Ledgers, AlikeTo(c, a, b)
    PROVE  View(c, a) = View(c, b)
<1>1. Visibility(c) = "scoped" /\ SeesPrincipals(c) /\ ~IsOwner(c)
  BY DEF Visibility, SeesPrincipals, IsOwner
<1>2. \A i \in Rows : /\ a[i].method = b[i].method /\ a[i].principal = b[i].principal
                      /\ a[i].agent = b[i].agent
  BY <1>1, AgentsArePublic DEF AlikeTo, OnlyNamesDiffer
<1>3. ASSUME NEW i \in Rows PROVE Alike(a, i) = Alike(b, i)
  <2>1. \A k \in Rows : a[k].user = a[i].user <=> b[k].user = b[i].user
    BY <1>1 DEF AlikeTo, OnlyNamesDiffer
  <2> QED
    BY <1>2, <2>1 DEF Alike
<1>4. Groups(c, a) = Groups(c, b)
  BY <1>1, <1>2, <1>3 DEF Groups
<1>5. TraceOf(c, a) = TraceOf(c, b)
  <2> DEFINE row(l, i) == [row |-> i, method |-> l[i].method,
                           principal |-> l[i].principal, user |-> Blank,
                           client |-> l[i].agent]
             reads(l, m) == {i \in Rows : l[i].method = m}
  <2>1. {row(a, i) : i \in Rows} = {row(b, i) : i \in Rows}
    BY <1>2
  <2>2. \A m \in AuthMethods : reads(a, m) = reads(b, m)
    BY <1>2
  <2>3. [m \in AuthMethods |-> reads(a, m)] = [m \in AuthMethods |-> reads(b, m)]
    BY <2>2
  <2> HIDE DEF row, reads
  <2>4. ASSUME NEW l
        PROVE  TraceOf(c, l) = [byMethod |-> [m \in AuthMethods |-> reads(l, m)],
                                principals |-> Groups(c, l),
                                rows |-> {row(l, i) : i \in Rows}]
    BY <1>1 DEF TraceOf, row, reads
  <2> QED
    BY <1>4, <2>1, <2>3, <2>4
<1>6. ListDigs(c, a) = ListDigs(c, b) /\ CallLog(c, a) = CallLog(c, b)
  BY <1>1, <1>2 DEF ListDigs, CallLog
<1>7. RawPage(c, a) = RawPage(c, b)
  BY <1>1 DEF RawPage
<1> QED
  BY <1>4, <1>5, <1>6, <1>7, SameView DEF AlikeTo

\* By ingress: the caller's own rows are the same, and stay the same ones.
LEMMA IngressSeesItself ==
    ASSUME NEW c \in Caller, c.method = "ingress",
           NEW a \in Ledgers, NEW b \in Ledgers, AlikeTo(c, a, b)
    PROVE  View(c, a) = View(c, b)
<1>1. Visibility(c) = "own" /\ ~SeesPrincipals(c) /\ ~IsOwner(c)
  BY DEF Visibility, SeesPrincipals, IsOwner
<1>2. /\ \A i \in Rows : a[i].method = b[i].method /\ a[i].agent = b[i].agent
      /\ c.user # NoUser =>
            \A i \in Rows : c.user \in {a[i].user, b[i].user} => a[i] = b[i]
  BY <1>1, AgentsArePublic DEF AlikeTo, OnlyNamesDiffer
<1>3. Own(c, a) = Own(c, b) /\ \A i \in Own(c, a) : i \in Rows /\ a[i] = b[i]
  BY <1>2 DEF Own
<1>4. Groups(c, a) = Groups(c, b)
  BY <1>1, <1>3 DEF Groups
<1>5. TraceOf(c, a) = TraceOf(c, b)
  <2> DEFINE row(l, i) == [row |-> i, method |-> l[i].method,
                           principal |-> l[i].principal, user |-> l[i].user,
                           client |-> l[i].agent]
             reads(l, m) == {i \in Rows : l[i].method = m}
  <2>1. {row(a, i) : i \in Own(c, a)} = {row(b, i) : i \in Own(c, b)}
    BY <1>3
  <2>2. \A m \in AuthMethods : reads(a, m) = reads(b, m)
    BY <1>2
  <2>3. [m \in AuthMethods |-> reads(a, m)] = [m \in AuthMethods |-> reads(b, m)]
    BY <2>2
  <2> HIDE DEF row, reads
  <2>4. ASSUME NEW l
        PROVE  TraceOf(c, l) = [byMethod |-> [m \in AuthMethods |-> reads(l, m)],
                                principals |-> Groups(c, l),
                                rows |-> {row(l, i) : i \in Own(c, l)}]
    BY <1>1 DEF TraceOf, row, reads
  <2> QED
    BY <1>4, <2>1, <2>3, <2>4
<1>6. ListDigs(c, a) = ListDigs(c, b)
  BY <1>1, <1>3 DEF ListDigs
<1>7. CallLog(c, a) = CallLog(c, b) /\ RawPage(c, a) = RawPage(c, b)
  BY <1>1, <1>2 DEF CallLog, RawPage
<1> QED
  BY <1>4, <1>5, <1>6, <1>7, SameView DEF AlikeTo

\* Any other token: nothing it reads but what is everyone's has a name in it.
LEMMA UnscopedSeesNobody ==
    ASSUME NEW c \in Caller, c.method = "oauth", ~c.reads,
           NEW a \in Ledgers, NEW b \in Ledgers, Public(a) = Public(b)
    PROVE  View(c, a) = View(c, b)
<1>1. Visibility(c) = "none" /\ ~SeesPrincipals(c) /\ ~IsOwner(c)
  BY DEF Visibility, SeesPrincipals, IsOwner
<1>2. Groups(c, a) = {} /\ Groups(c, b) = {}
  BY <1>1 DEF Groups
<1>3. TraceOf(c, a) = TraceOf(c, b) /\ ListDigs(c, a) = ListDigs(c, b)
  BY <1>1 DEF TraceOf, ListDigs
<1>4. CallLog(c, a) = CallLog(c, b) /\ RawPage(c, a) = RawPage(c, b)
  BY <1>1, AgentsArePublic DEF CallLog, RawPage
<1> QED
  BY <1>2, <1>3, <1>4, SameView

LEMMA SightHolds == ASSUME NEW c \in Caller PROVE SeesNoOthers(c)
<1> SUFFICES ASSUME NEW a \in Ledgers, NEW b \in Ledgers, AlikeTo(c, a, b)
             PROVE  View(c, a) = View(c, b)
  BY DEF SeesNoOthers
<1>1. CASE IsOwner(c)
  <2>1. a = b
    BY <1>1 DEF IsOwner, AlikeTo, OnlyNamesDiffer
  <2> QED
    BY <2>1
<1>2. CASE c.method = "oauth" /\ c.reads
  BY <1>2, ScopedSeesNoPerson
<1>3. CASE c.method = "ingress"
  BY <1>3, IngressSeesItself
<1>4. CASE c.method = "oauth" /\ ~c.reads
  BY <1>4, UnscopedSeesNobody DEF AlikeTo
<1> QED
  BY <1>1, <1>2, <1>3, <1>4 DEF AlikeTo, OnlyNamesDiffer

LEMMA ShowsHolds == ASSUME NEW e PROVE ShowsOnlyTheirs(e)
  BY SightHolds DEF ShowsOnlyTheirs, Discreet, Published

\* Every environment that passes the checks of boot.ts decides every request
\* soundly, for all environments and requests there are, and no caller it
\* publishes is shown a name that is not for him, for all ledgers, beyond what
\* the register of who comes, the clients and the timeline show to everyone.
THEOREM GateSound == Spec => GateIsSound
<1>1. ASSUME [Next]_vars, ~up, up'
      PROVE  ~BootProblem(env)
  BY <1>1 DEF Next, vars, Boot, Stop, CoreChanges, Ask, Converse, Tell, Deliver,
              Break, GiveUp, Failed, Decide, Leave, Tick
<1>2. ASSUME env \in Env, ~BootProblem(env), NEW r \in Requests
      PROVE  DecidesSoundly(env, r)
  BY <1>2, GateAssumption, BearerDecides, ClaimsHold, OpenHolds, MarkHolds, IngressHolds
     DEF DecidesSoundly
<1>3. Init => env \in Env
  BY GateAssumption DEF Init
<1>4. env \in Env /\ [Next]_vars => (env \in Env)'
  BY DEF Next, vars, Boot, Stop, CoreChanges, Ask, Converse, Tell, Deliver,
         Break, GiveUp, Failed, Decide, Leave, Tick
<1>5. env \in Env /\ [Next]_vars =>
        (~up /\ up' => /\ \A r \in Requests : DecidesSoundly(env, r)
                      /\ ShowsOnlyTheirs(env))
  BY <1>1, <1>2, ShowsHolds
<1> QED
  BY <1>3, <1>4, <1>5, PTL DEF Spec, GateIsSound
----------------------------------------------------------------------------
(* The lookup. *)

\* While an answer is kept, and while it travels: whoever it names was an
\* admin, and whoever it leaves out was none, not longer ago than it is old.
Kept ==
    /\ \A u \in ids : u \in admins \/ since[u] + left <= Horizon \/ left = 0
    /\ heard => \A u \in Users \ ids :
                   u \notin admins \/ since[u] + left <= Horizon \/ left = 0

Told ==
    load.phase = "told" =>
        /\ \A u \in load.told : u \in admins \/ since[u] <= load.age
        /\ \A u \in Users \ load.told : u \notin admins \/ since[u] <= load.age

\* A woken caller finds the answer that woke it, and is one Core may know.
Fresh ==
    \A c \in Callers :
        /\ ask[c].phase = "woken" => left > 0
        /\ ask[c].phase \in {"waiting", "woken"} => ask[c].user \in Users

Inv == TypeOK /\ Kept /\ Told /\ Fresh /\ GrantIsRecent /\ DenialIsEarned

\* Where nothing is asked or looked up, the records have their types.
LEMMA IdleTypes == NoAsk \in Asking /\ NoLoad \in Load
  BY HorizonNat DEF NoAsk, Asking, NoLoad, Load

\* The lookup is asked only for a user id that is well formed.
LEMMA LookupsType == \A q \in Lookups[env] : env \in Envs => q.user \in Users /\ q.marked \in BOOLEAN
<1> SUFFICES ASSUME env \in Envs, NEW q \in Lookups[env]
             PROVE  q.user \in Users /\ q.marked \in BOOLEAN
  OBVIOUS
<1>1. PICK r \in Requests : Verdict(env, r) = "ask" /\ q = [user |-> r.user, marked |-> Marked("ingress", r)]
  BY DEF Lookups
<1> DEFINE s == Stamped(env, r)
<1>2. r \in Request /\ s.user = r.user
  BY GateAssumption DEF Stamped, Request
<1>3. Authenticate(env, s) = "ask"
  BY <1>1 DEF Verdict
<1>4. s.user # NoUser
  BY <1>3 DEF Authenticate, Bearer, Ambient, Ingress
<1>5. Marked("ingress", r) \in BOOLEAN
  BY <1>2 DEF Marked, Request
<1> QED
  BY <1>1, <1>2, <1>4, <1>5 DEF Request

\* A decision on a kept answer keeps the promise.
LEMMA DecidedIsSound ==
    ASSUME Inv, left > 0, NEW a \in Asking, a.user \in Users
    PROVE  LET d == Decided(a) IN
           /\ d \in Asking
           /\ d.phase \in {"in", "out", "csrf"}
           /\ d.phase \in {"in", "csrf"} => d.age < Horizon
           /\ d.phase = "out" => ~d.sure \/ d.lack < Horizon
<1> DEFINE d == Decided(a)
<1> USE HorizonNat
<1>1. since[a.user] \in 0..(Horizon + 1) /\ left \in Nat /\ heard \in BOOLEAN
  BY DEF Inv, TypeOK
<1>2. /\ d \in Asking
      /\ d.phase = IF a.user \in ids THEN IF a.marked THEN "in" ELSE "csrf" ELSE "out"
      /\ d.age = IF a.user \in admins THEN 0 ELSE since[a.user]
      /\ d.lack = IF a.user \in admins THEN since[a.user] ELSE 0
      /\ d.sure = heard
  <2>1. a.marked \in BOOLEAN /\ a.user \in Users
    BY DEF Asking
  <2> QED
    BY <1>1, <2>1 DEF Decided, IsAdmin, Asking
<1>3. a.user \in ids => a.user \in admins \/ since[a.user] < Horizon
  BY <1>1 DEF Inv, Kept
<1>4. heard /\ a.user \notin ids => a.user \notin admins \/ since[a.user] < Horizon
  BY <1>1 DEF Inv, Kept
<1> HIDE DEF d
<1>5. d.phase \in {"in", "csrf"} => a.user \in ids
  BY <1>2
<1>6. d.phase = "out" => a.user \notin ids
  BY <1>2
<1> QED
  BY <1>1, <1>2, <1>3, <1>4, <1>5, <1>6 DEF d

LEMMA InvInit == Init => Inv
<1> USE HorizonNat
<1> SUFFICES ASSUME Init PROVE Inv
  OBVIOUS
<1>1. TypeOK
  <2>1. /\ env \in Env /\ admins \subseteq Users
        /\ left \in 0..Keep
    BY GateAssumption DEF Init
  <2>5. up \in BOOLEAN /\ heard \in BOOLEAN
    BY DEF Init
  <2>2. since \in [Users -> 0..(Horizon + 1)]
    BY DEF Init
  <2>3. ids \subseteq Users
    BY DEF Init
  <2>4. load \in Load /\ ask \in [Callers -> Asking]
    BY IdleTypes DEF Init
  <2> QED
    BY <2>1, <2>2, <2>3, <2>4, <2>5 DEF TypeOK
<1> QED
  BY <1>1 DEF Inv, Init, Kept, Told, Fresh, GrantIsRecent, DenialIsEarned, NoLoad, NoAsk

\* A lookup that fails leaves nothing to rely on, and says so.
LEMMA FailedKeepsInv == Inv /\ Failed => Inv'
<1> USE HorizonNat
<1> SUFFICES ASSUME Inv, Failed PROVE Inv'
  OBVIOUS
<1>1. ASSUME NEW c \in Callers
      PROVE  /\ ask'[c] \in Asking
             /\ ask'[c].phase = "waiting" => FALSE
             /\ ask'[c].phase = "woken" => ask[c].phase \in {"waiting", "woken"}
             /\ ask'[c].user = ask[c].user /\ ask'[c].age = ask[c].age
             /\ ask'[c].lack = ask[c].lack /\ ask'[c].sure = ask[c].sure
             /\ ask'[c].phase \in {"in", "out", "csrf"} => ask'[c].phase = ask[c].phase
  BY <1>1 DEF Failed, Woken, Inv, TypeOK, Asking
<1>2. TypeOK'
  <2>1. ask' \in [Callers -> Asking]
    BY <1>1 DEF Failed, Woken
  <2>2. /\ env' \in Env /\ up' \in BOOLEAN /\ admins' \subseteq Users
        /\ since' \in [Users -> 0..(Horizon + 1)]
        /\ left' \in 0..Keep
    BY DEF Inv, TypeOK, Failed
  <2>5. heard' \in BOOLEAN
    BY DEF Failed
  <2>3. ids' \subseteq Users
    BY DEF Failed
  <2>4. load' \in Load
    BY IdleTypes DEF Failed
  <2> QED
    BY <2>1, <2>2, <2>3, <2>4, <2>5 DEF TypeOK
<1>3. Kept' /\ Told'
  BY DEF Failed, Kept, Told, NoLoad
<1>4. left' > 0
  BY DEF Failed
<1>5. Fresh'
  BY <1>1, <1>4 DEF Fresh, Inv
<1>6. GrantIsRecent' /\ DenialIsEarned'
  BY <1>1 DEF GrantIsRecent, DenialIsEarned, Inv
<1> QED
  BY <1>2, <1>3, <1>5, <1>6 DEF Inv

LEMMA DeliverKeepsInv == Inv /\ Deliver => Inv'
<1> USE HorizonNat
<1> SUFFICES ASSUME Inv, Deliver PROVE Inv'
  OBVIOUS
<1>1. ASSUME NEW c \in Callers
      PROVE  /\ ask'[c] \in Asking
             /\ ask'[c].phase = "waiting" => FALSE
             /\ ask'[c].phase = "woken" => ask[c].phase \in {"waiting", "woken"}
             /\ ask'[c].user = ask[c].user /\ ask'[c].age = ask[c].age
             /\ ask'[c].lack = ask[c].lack /\ ask'[c].sure = ask[c].sure
             /\ ask'[c].phase \in {"in", "out", "csrf"} => ask'[c].phase = ask[c].phase
  BY <1>1 DEF Deliver, Woken, Inv, TypeOK, Asking
<1>2. TypeOK'
  BY <1>1 DEF Inv, TypeOK, Deliver, Woken, NoLoad, Load
<1>3. load.age \in 0..Timeout /\ load.told \subseteq Users
  BY DEF Inv, TypeOK, Load
<1>4. \A u \in Users : since[u] \in Nat
  BY DEF Inv, TypeOK
<1>5. Kept'
  BY <1>3, <1>4 DEF Inv, Told, Kept, Deliver
<1>6. Told'
  BY DEF Told, Deliver, NoLoad
<1>7. Fresh'
  BY <1>1 DEF Fresh, Inv, Deliver
<1>8. GrantIsRecent' /\ DenialIsEarned'
  BY <1>1 DEF GrantIsRecent, DenialIsEarned, Inv
<1> QED
  BY <1>2, <1>5, <1>6, <1>7, <1>8 DEF Inv

LEMMA TickKeepsInv == Inv /\ Tick => Inv'
<1> USE HorizonNat
<1> SUFFICES ASSUME Inv, Tick PROVE Inv'
  OBVIOUS
<1>1. \A u \in Users : since[u] \in 0..(Horizon + 1)
  BY DEF Inv, TypeOK
<1>2. since' \in [Users -> 0..(Horizon + 1)]
  BY <1>1 DEF Tick
<1>3. left \in 0..Keep /\ left' \in 0..Keep
  BY DEF Inv, TypeOK, Tick
<1>4. load' \in Load
  BY DEF Inv, TypeOK, Tick, Load
<1>5. TypeOK'
  BY <1>2, <1>3, <1>4 DEF Inv, TypeOK, Tick
<1>6. Kept'
  <2>1. \A u \in Users : since[u] + left <= Horizon \/ left = 0
                         => since'[u] + left' <= Horizon \/ left' = 0
    BY <1>1, <1>3 DEF Tick
  <2> QED
    BY <2>1 DEF Inv, TypeOK, Kept, Tick
<1>7. Told'
  <2>1. load'.phase = "told" => load.phase = "told" /\ load'.told = load.told
                                /\ load'.age = load.age + 1 /\ load.age \in Nat
    BY DEF Inv, TypeOK, Load, Tick
  <2>2. \A u \in Users : since'[u] <= since[u] + 1
    BY <1>1 DEF Tick
  <2>3. load.told \subseteq Users
    BY DEF Inv, TypeOK, Load
  <2>4. \A u \in Users : since'[u] \in Nat
    BY <1>2
  <2>5. ASSUME load'.phase = "told", NEW u \in Users, since[u] <= load.age
        PROVE  since'[u] <= load'.age
    BY <2>1, <2>2, <2>4, <2>5, <1>1
  <2> QED
    BY <2>1, <2>3, <2>5 DEF Inv, Told, Tick
<1>8. Fresh' /\ GrantIsRecent' /\ DenialIsEarned'
  BY DEF Inv, Fresh, GrantIsRecent, DenialIsEarned, Tick
<1> QED
  BY <1>5, <1>6, <1>7, <1>8 DEF Inv

LEMMA AskKeepsInv ==
    ASSUME Inv, env \in Envs, NEW c \in Callers, NEW q \in Lookups[env], Ask(c, q)
    PROVE  Inv'
<1> USE HorizonNat
<1> DEFINE a == [NoAsk EXCEPT !.phase = "waiting", !.user = q.user, !.marked = q.marked]
<1>1. q.user \in Users /\ q.marked \in BOOLEAN
  BY LookupsType
<1>2. a \in Asking /\ a.user \in Users /\ a.phase = "waiting"
  <2>1. NoAsk \in Asking
    BY IdleTypes
  <2> QED
    BY <1>1, <2>1 DEF Asking
<1>3. UNCHANGED <<env, up, admins, since, ids, left, heard>>
  BY DEF Ask
<1>4. CASE left > 0
  <2> DEFINE d == Decided(a)
  <2>1. ask' = [ask EXCEPT ![c] = d] /\ load' = load
    BY <1>4 DEF Ask
  <2>2. /\ d \in Asking
        /\ d.phase \in {"in", "out", "csrf"}
        /\ d.phase \in {"in", "csrf"} => d.age < Horizon
        /\ d.phase = "out" => ~d.sure \/ d.lack < Horizon
    BY <1>2, <1>4, DecidedIsSound
  <2> HIDE DEF d
  <2>3. TypeOK'
    BY <1>3, <2>1, <2>2 DEF Inv, TypeOK
  <2>4. Kept' /\ Told'
    BY <1>3, <2>1 DEF Inv, Kept, Told
  <2>5. Fresh' /\ GrantIsRecent' /\ DenialIsEarned'
    BY <1>3, <2>1, <2>2 DEF Inv, TypeOK, Fresh, GrantIsRecent, DenialIsEarned
  <2> QED
    BY <2>3, <2>4, <2>5 DEF Inv
<1>5. CASE ~(left > 0)
  <2>1. /\ ask' = [ask EXCEPT ![c] = a]
        /\ load' = IF load.phase = "none" THEN [load EXCEPT !.phase = "dialled"] ELSE load
    BY <1>5 DEF Ask
  <2> HIDE DEF a
  <2>2. TypeOK'
    BY <1>2, <1>3, <2>1 DEF Inv, TypeOK, Load
  <2>3. load'.phase = "told" => load' = load
    BY <2>1 DEF Inv, TypeOK, Load
  <2>4. Kept' /\ Told'
    BY <1>3, <2>1, <2>3 DEF Inv, Kept, Told
  <2>5. Fresh' /\ GrantIsRecent' /\ DenialIsEarned'
    BY <1>2, <1>3, <2>1 DEF Inv, TypeOK, Fresh, GrantIsRecent, DenialIsEarned
  <2> QED
    BY <2>2, <2>4, <2>5 DEF Inv
<1> QED
  BY <1>4, <1>5

LEMMA DecideKeepsInv == ASSUME Inv, NEW c \in Callers, Decide(c) PROVE Inv'
<1> USE HorizonNat
<1> DEFINE d == Decided(ask[c])
<1>1. /\ ask[c] \in Asking /\ ask[c].user \in Users /\ left > 0
      /\ ask' = [ask EXCEPT ![c] = d]
      /\ UNCHANGED <<env, up, admins, since, ids, left, load, heard>>
  BY DEF Inv, TypeOK, Fresh, Decide
<1>2. /\ d \in Asking
      /\ d.phase \in {"in", "out", "csrf"}
      /\ d.phase \in {"in", "csrf"} => d.age < Horizon
      /\ d.phase = "out" => ~d.sure \/ d.lack < Horizon
  BY <1>1, DecidedIsSound
<1> HIDE DEF d
<1>3. TypeOK'
  BY <1>1, <1>2 DEF Inv, TypeOK
<1>4. Kept' /\ Told'
  BY <1>1 DEF Inv, Kept, Told
<1>5. Fresh' /\ GrantIsRecent' /\ DenialIsEarned'
  BY <1>1, <1>2 DEF Inv, TypeOK, Fresh, GrantIsRecent, DenialIsEarned
<1> QED
  BY <1>3, <1>4, <1>5 DEF Inv

LEMMA CoreChangesKeepsInv == ASSUME Inv, NEW u \in Movers, CoreChanges(u) PROVE Inv'
<1> USE HorizonNat, GateAssumption
<1>1. TypeOK'
  BY DEF Inv, TypeOK, CoreChanges
<1>2. /\ \A v \in Users : since'[v] = IF v = u THEN 0 ELSE since[v]
      /\ \A v \in Users : v # u => (v \in admins' <=> v \in admins)
      /\ UNCHANGED <<ids, left, load, ask, heard>>
  BY DEF Inv, TypeOK, CoreChanges
<1>3. ids \subseteq Users /\ load.told \subseteq Users /\ left \in 0..Keep /\ load.age \in Nat
  BY DEF Inv, TypeOK, Load
<1>4. Kept'
  BY <1>2, <1>3 DEF Inv, Kept
<1>5. Told'
  BY <1>2, <1>3 DEF Inv, Told
<1>6. Fresh' /\ GrantIsRecent' /\ DenialIsEarned'
  BY <1>2 DEF Inv, Fresh, GrantIsRecent, DenialIsEarned
<1> QED
  BY <1>1, <1>4, <1>5, <1>6 DEF Inv

LEMMA InvNext == Inv /\ env \in Envs /\ [Next]_vars => Inv'
<1> USE HorizonNat
<1> SUFFICES ASSUME Inv, env \in Envs, [Next]_vars PROVE Inv'
  OBVIOUS
<1>1. CASE Boot
  BY <1>1 DEF Boot, Inv, TypeOK, Kept, Told, Fresh, GrantIsRecent, DenialIsEarned
<1>2. CASE Stop
  <2>1. TypeOK'
    <3>1. /\ env' \in Env /\ admins' \subseteq Users
          /\ since' \in [Users -> 0..(Horizon + 1)]
          /\ left' \in 0..Keep
      BY <1>2 DEF Stop, Inv, TypeOK
    <3>4. up' \in BOOLEAN /\ heard' \in BOOLEAN
      BY <1>2 DEF Stop
    <3>2. ids' \subseteq Users
      BY <1>2 DEF Stop
    <3>3. load' \in Load /\ ask' \in [Callers -> Asking]
      BY <1>2, IdleTypes DEF Stop
    <3> QED
      BY <3>1, <3>2, <3>3, <3>4 DEF TypeOK
  <2>2. Kept' /\ Told' /\ Fresh' /\ GrantIsRecent' /\ DenialIsEarned'
    BY <1>2 DEF Stop, Kept, Told, Fresh, GrantIsRecent, DenialIsEarned, NoLoad, NoAsk
  <2> QED
    BY <2>1, <2>2 DEF Inv
<1>3. ASSUME NEW u \in Movers, CoreChanges(u) PROVE Inv'
  BY <1>3, CoreChangesKeepsInv
<1>4. ASSUME NEW c \in Callers, NEW q \in Lookups[env], Ask(c, q) PROVE Inv'
  BY <1>4, AskKeepsInv
<1>5. CASE Converse
  <2>1. TypeOK'
    BY <1>5 DEF Converse, Inv, TypeOK, Load
  <2>2. load'.phase # "told"
    BY <1>5 DEF Converse, Inv, TypeOK, Load
  <2> QED
    BY <1>5, <2>1, <2>2 DEF Converse, Inv, Kept, Told, Fresh, GrantIsRecent, DenialIsEarned
<1>6. CASE Tell
  <2>1. TypeOK'
    BY <1>6, GateAssumption DEF Tell, Inv, TypeOK, Load
  <2>2. load'.told = admins
    BY <1>6 DEF Tell, Inv, TypeOK, Load
  <2> QED
    BY <1>6, <2>1, <2>2 DEF Tell, Inv, Kept, Told, Fresh, GrantIsRecent, DenialIsEarned
<1>7. CASE Deliver
  BY <1>7, DeliverKeepsInv
<1>8. CASE Break
  BY <1>8, FailedKeepsInv DEF Break
<1>9. CASE GiveUp
  BY <1>9, FailedKeepsInv DEF GiveUp
<1>10. ASSUME NEW c \in Callers, Decide(c) PROVE Inv'
  BY <1>10, DecideKeepsInv
<1>11. ASSUME NEW c \in Callers, Leave(c) PROVE Inv'
  <2>1. NoAsk \in Asking
    BY DEF NoAsk, Asking
  <2> QED
    BY <1>11, <2>1 DEF Leave, Inv, TypeOK, Kept, Told, Fresh, GrantIsRecent, DenialIsEarned, NoAsk
<1>12. CASE Tick
  BY <1>12, TickKeepsInv
<1>13. CASE UNCHANGED vars
  BY <1>13 DEF vars, Inv, TypeOK, Kept, Told, Fresh, GrantIsRecent, DenialIsEarned
<1> QED
  BY <1>1, <1>2, <1>3, <1>4, <1>5, <1>6, <1>7, <1>8, <1>9, <1>10, <1>11, <1>12, <1>13 DEF Next

\* The environment never changes while the server knows it.
LEMMA EnvStays == Spec => [](env \in Envs)
<1>1. Init => env \in Envs
  BY DEF Init
<1>2. env \in Envs /\ [Next]_vars => (env \in Envs)'
  BY DEF Next, vars, Boot, Stop, CoreChanges, Ask, Converse, Tell, Deliver,
         Break, GiveUp, Failed, Decide, Leave, Tick
<1> QED
  BY <1>1, <1>2, PTL DEF Spec

LEMMA InvAlways == Spec => []Inv
  BY InvInit, InvNext, EnvStays, PTL DEF Spec

\* The state of the gate has its type.
THEOREM TypeCorrect == Spec => []TypeOK
<1>1. Inv => TypeOK
  BY DEF Inv
<1> QED
  BY <1>1, InvAlways, PTL

\* No one is let in on news older than an answer is kept and fetched.
THEOREM Recent == Spec => []GrantIsRecent
<1>1. Inv => GrantIsRecent
  BY DEF Inv
<1> QED
  BY <1>1, InvAlways, PTL

\* No admin is turned away but for a failed lookup or as recent a change.
THEOREM Earned == Spec => []DenialIsEarned
<1>1. Inv => DenialIsEarned
  BY DEF Inv
<1> QED
  BY <1>1, InvAlways, PTL
----------------------------------------------------------------------------
(* Why nobody waits long.  That the timer fires is a matter of fairness and *)
(* left to TLC; that it is there for whoever waits, and is not set back by  *)
(* who joins, is this.                                                      *)

\* Whoever waits, waits for a lookup under way.
Attended == \A c \in Callers : ask[c].phase = "waiting" => load.phase # "none"

LEMMA AttendedNext == Inv /\ Attended /\ [Next]_vars => Attended'
<1> SUFFICES ASSUME Inv, Attended, [Next]_vars PROVE Attended'
  OBVIOUS
<1>1. CASE Deliver \/ Failed
  <2>1. \A c \in Callers : ask'[c].phase # "waiting"
    BY <1>1 DEF Deliver, Failed, Woken, Inv, TypeOK, Asking
  <2> QED
    BY <2>1 DEF Attended
<1>2. ASSUME NEW c \in Callers, NEW q \in Lookups[env], Ask(c, q) PROVE Attended'
  <2>1. load' = load \/ load'.phase = "dialled"
    BY <1>2 DEF Ask, Inv, TypeOK, Load
  <2>2. CASE left > 0
    <3>1. Decided([NoAsk EXCEPT !.phase = "waiting", !.user = q.user, !.marked = q.marked]).phase
             # "waiting"
      BY DEF Decided
    <3> QED
      BY <1>2, <2>2, <3>1 DEF Ask, Attended, Inv, TypeOK
  <2>3. CASE ~(left > 0)
    <3>1. load'.phase # "none"
      BY <1>2, <2>3 DEF Ask, Inv, TypeOK, Load
    <3> QED
      BY <3>1 DEF Attended
  <2> QED
    BY <2>2, <2>3
<1>3. ASSUME NEW c \in Callers, Decide(c) \/ Leave(c) PROVE Attended'
  <2>1. Decided(ask[c]).phase # "waiting"
    BY DEF Decided
  <2>2. ask'[c].phase # "waiting"
    BY <1>3, <2>1 DEF Decide, Leave, NoAsk, Inv, TypeOK
  <2>3. load' = load /\ \A b \in Callers : b # c => ask'[b] = ask[b]
    BY <1>3 DEF Decide, Leave, Inv, TypeOK
  <2> QED
    BY <2>2, <2>3 DEF Attended
<1>4. CASE Converse \/ Tell \/ Tick
  <2>1. load.phase # "none" => load'.phase # "none"
    BY <1>4 DEF Converse, Tell, Tick, Inv, TypeOK, Load
  <2> QED
    BY <1>4, <2>1 DEF Converse, Tell, Tick, Attended
<1>5. CASE Stop
  BY <1>5 DEF Stop, NoAsk, Attended
<1>6. CASE Boot \/ UNCHANGED vars \/ \E u \in Movers : CoreChanges(u)
  BY <1>6 DEF Boot, CoreChanges, vars, Attended
<1> QED
  BY <1>1, <1>2, <1>3, <1>4, <1>5, <1>6 DEF Next, Break, GiveUp

\* What the timer of the lookup does while a caller goes on waiting.
TimerHolds(c) ==
    ask[c].phase = "waiting" /\ ask'[c].phase = "waiting" =>
        /\ load.phase # "none" /\ load'.phase # "none"
        /\ load.age <= load'.age /\ load'.age <= Timeout
        /\ Tick => load.age < load'.age

\* A caller who waits does so while one lookup grows older with every tick of
\* the clock, up to its timer: nobody who joins it, nothing Core says or does,
\* starts the time over, so no one waits longer than the three seconds.
THEOREM WaitIsBounded == Spec => [][\A c \in Callers : TimerHolds(c)]_vars
<1>1. ASSUME Inv, Attended, Next, NEW c \in Callers
      PROVE  TimerHolds(c)
  <2> SUFFICES ASSUME ask[c].phase = "waiting", ask'[c].phase = "waiting"
               PROVE  /\ load.phase # "none" /\ load'.phase # "none"
                      /\ load.age <= load'.age /\ load'.age <= Timeout
                      /\ Tick => load.age < load'.age
    BY DEF TimerHolds
  <2>1. load.phase # "none" /\ load'.phase # "none"
    BY <1>1, AttendedNext DEF Attended
  <2>2. load \in Load /\ load.age \in 0..Timeout /\ Timeout \in Nat
    BY <1>1, HorizonNat DEF Inv, TypeOK, Load
  <2>3. ~Deliver /\ ~Failed /\ ~Stop
    BY <1>1 DEF Deliver, Failed, Woken, Stop, NoAsk, Inv, TypeOK, Asking
  <2>4. CASE Tick
    <3>1. load' = [load EXCEPT !.age = @ + 1] /\ load.age < Timeout
      BY <2>1, <2>2, <2>4 DEF Tick
    <3>2. load'.age = load.age + 1
      BY <2>2, <3>1 DEF Load
    <3> QED
      BY <2>1, <2>2, <3>1, <3>2
  <2>5. CASE ~Tick
    <3>1. load'.age = load.age
      BY <1>1, <2>1, <2>2, <2>3, <2>5
         DEF Next, Boot, CoreChanges, Ask, Converse, Tell, Break, GiveUp, Decide,
             Leave, Load
    <3> QED
      BY <2>1, <2>2, <2>5, <3>1
  <2> QED
    BY <2>4, <2>5
<1>2. Inv /\ Attended /\ [Next]_vars => [\A c \in Callers : TimerHolds(c)]_vars
  BY <1>1
<1>3. Init => Attended
  BY DEF Init, NoAsk, Attended
<1> QED
  BY <1>2, <1>3, AttendedNext, InvAlways, PTL DEF Spec

=============================================================================
