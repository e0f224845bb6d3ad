-------------------------- MODULE AcquisitionProofs --------------------------
(***************************************************************************)
(* Proofs about acquisitions and their replay: for every set of heads,     *)
(* pull requests and revisions, every contract, page limit and bound on    *)
(* the pages a provider links, and whatever it answers.                    *)
(*                                                                         *)
(* Typed holds of every transcript, altered or not, and with it what a     *)
(* transcript says that replay calls complete (CompleteClosed) or that     *)
(* keeps its authority though truncated (TruncatedPrefix).  Collecting     *)
(* holds of the collector's own: it is why replay agrees with it           *)
(* (CollectorAgreed).                                                      *)
(***************************************************************************)
EXTENDS Acquisition, SequenceTheorems, WellFoundedInduction, TLAPS

\* Ids, requests and exchanges of transcripts, altered ones included.
Ids == {NoId, Elsewhere} \cup Heads \cup Pulls \cup Revisions
Requests == [kind : Kinds, id : Ids, page : Nat]

\* A response links the next page of what was asked, a single object and a
\* refusal link none, and only a first page reports a total.
Shaped(x) ==
    /\ x.link \in {NoRequest, Following(x.request)}
    /\ x.status # "ok" \/ x.request.kind \in Objects => x.link = NoRequest
    /\ x.total # Unreported => x.request.page = 0
    /\ x.found \in Lists(x.request.kind)

Exchanges ==
    {x \in [request : Requests, status : {"ok", "forbidden"} \cup Refusals,
            link : Requests \cup {NoRequest},
            found : SUBSET (Heads \cup Pulls \cup {Protected}),
            items : Nat, total : Nat \cup {Unreported}] : Shaped(x)}

\* What an acquisition with the page limit n can retain.
Retained(n) == {x \in Exchanges : x.request.page < n}

-----------------------------------------------------------------------------
(***************************************************************************)
(* Pages.  The chain of a transcript is a function defined along the       *)
(* exchanges, and NextPages takes one that satisfies its equation: that    *)
(* there is one is to be proved first.                                     *)
(***************************************************************************)
LEMMA Smallest ==
    ASSUME NEW S, S \subseteq Nat, S # {}
    PROVE  \E j \in S : \A i \in S : j <= i
<1>1. PICK j \in S : \A i \in S : <<i, j>> \notin OpToRel(<, Nat)
  BY NatLessThanWellFounded, WFMin
<1>2. \A i \in S : ~(i < j)
  BY <1>1 DEF OpToRel
<1>3. QED
  BY <1>2

\* NoRequest is none of the requests.
LEMMA RequestIsSome == \A r \in Requests : r # NoRequest
<1>1. Ids \subseteq Int
  BY TranscriptAssumption DEF Ids, NoId, Elsewhere
<1>2. Requests \subseteq [kind : Kinds, id : Int, page : Nat]
  BY <1>1 DEF Requests
<1>3. QED
  BY <1>2, TranscriptAssumption

\* The chain of a transcript is defined.
LEMMA ChainExists ==
    ASSUME NEW t, t.exchanges \in Seq(Exchanges)
    PROVE  \E f : f = [i \in DOMAIN t.exchanges |-> Chained(t, f, i)]
<1> DEFINE n == Len(t.exchanges)
           Holds(m) == \E f : f = [i \in 1..m |-> Chained(t, f, i)]
           S == {m \in 0..n : ~Holds(m)}
<1>1. n \in Nat /\ DOMAIN t.exchanges = 1..n
  OBVIOUS
<1>2. Holds(0)
  <2>1. 1..0 = {} /\ <<>> = [i \in 1..0 |-> Chained(t, <<>>, i)]
    OBVIOUS
  <2>2. QED
    BY <2>1, Zenon
<1>3. ASSUME NEW m \in Nat, Holds(m)
      PROVE  Holds(m + 1)
  <2>1. PICK f : f = [i \in 1..m |-> Chained(t, f, i)]
    BY <1>3
  <2> DEFINE g == [i \in 1..(m + 1) |-> IF i <= m THEN f[i] ELSE Chained(t, f, m + 1)]
  <2>2. ASSUME NEW i \in 1..(m + 1) PROVE Chained(t, g, i) = Chained(t, f, i)
    BY DEF Chained
  <2>3. ASSUME NEW i \in 1..(m + 1) PROVE g[i] = Chained(t, g, i)
    <3>1. CASE i <= m
      <4>1. i \in 1..m /\ g[i] = f[i]
        BY <3>1
      <4>2. f[i] = Chained(t, f, i)
        BY <2>1, <4>1
      <4>3. QED
        BY <2>2, <4>1, <4>2
    <3>2. CASE i > m
      <4>1. i = m + 1 /\ g[i] = Chained(t, f, i)
        BY <3>2
      <4>2. QED
        BY <2>2, <4>1
    <3>3. QED
      BY <3>1, <3>2
  <2>4. g = [i \in 1..(m + 1) |-> g[i]]
    OBVIOUS
  <2> HIDE DEF g
  <2>5. g = [i \in 1..(m + 1) |-> Chained(t, g, i)]
    BY <2>3, <2>4
  <2>6. QED
    BY <2>5
<1> HIDE DEF Holds
<1>4. S = {}
  <2> SUFFICES ASSUME S # {} PROVE FALSE
    OBVIOUS
  <2>0. S \subseteq Nat
    BY <1>1
  <2>1. PICK m \in S : \A k \in S : m <= k
    <3> HIDE DEF S
    <3> QED
      BY <2>0, Smallest
  <2>2. m # 0 /\ m \in Nat
    BY <1>1, <1>2, <2>1
  <2>3. Holds(m - 1)
    <3>1. m - 1 \in 0..n /\ ~(m <= m - 1)
      BY <1>1, <2>2
    <3>2. m - 1 \notin S
      BY <2>1, <3>1
    <3>3. QED
      BY <3>1, <3>2
  <2>4. Holds((m - 1) + 1) /\ (m - 1) + 1 = m
    BY <1>3, <2>2, <2>3
  <2>5. QED
    BY <2>1, <2>4
<1>5. Holds(n)
  BY <1>1, <1>4
<1>6. QED
  BY <1>1, <1>5 DEF Holds

\* NextPages counts along a chain.
LEMMA NextPagesChained ==
    ASSUME NEW t, t.exchanges \in Seq(Exchanges)
    PROVE  \E f : /\ f = [i \in DOMAIN t.exchanges |-> Chained(t, f, i)]
                  /\ NextPages(t) = [i \in DOMAIN t.exchanges |-> f[i].next]
<1> DEFINE Defining(f) == f = [i \in DOMAIN t.exchanges |-> Chained(t, f, i)]
           chain == CHOOSE f : Defining(f)
<1>1. \E f : Defining(f)
  BY ChainExists
<1>2. Defining(chain)
  <2> HIDE DEF Defining
  <2> QED
    BY <1>1, Zenon
<1>3. NextPages(t) = [i \in DOMAIN t.exchanges |-> chain[i].next]
  BY DEF NextPages
<1>4. QED
  BY <1>2, <1>3

\* What continues a population names its page: the pages after the exchanges are
\* those the responses link.
LEMMA PageIsPlace ==
    ASSUME NEW t, t.exchanges \in Seq(Exchanges), NEW next, next = NextPages(t),
           t.exchanges # <<>> => t.exchanges[1].request.page = 0,
           \A i \in DOMAIN t.exchanges \ {1} :
                t.exchanges[i].request.page > 0 =>
                    \/ next[i - 1] = t.exchanges[i].request
                    \/ t.exchanges[i - 1].link = t.exchanges[i].request
    PROVE  next = [i \in DOMAIN t.exchanges |-> t.exchanges[i].link]
<1> DEFINE xs == t.exchanges
           n == Len(xs)
<1>1. n \in Nat /\ DOMAIN xs = 1..n /\ \A i \in 1..n : xs[i] \in Exchanges
  OBVIOUS
<1>2. PICK f : /\ f = [i \in 1..n |-> Chained(t, f, i)]
               /\ next = [i \in 1..n |-> f[i].next]
  BY <1>1, NextPagesChained
<1> DEFINE Bad == {i \in 1..n : f[i].place # xs[i].request.page}
<1>3. ASSUME NEW i \in 1..n
      PROVE  /\ next[i] = NextPage(t.contract, xs[i], f[i].place)
             /\ f[i].place = IF i > 1 /\ next[i - 1] = xs[i].request
                             THEN f[i - 1].place + 1 ELSE 0
  <2>1. f[i] = Chained(t, f, i)
    BY <1>2
  <2>2. i > 1 => i - 1 \in 1..n
    BY <1>1
  <2>3. next[i] = f[i].next /\ (i > 1 => next[i - 1] = f[i - 1].next)
    BY <1>2, <2>2
  <2>4. QED
    BY <2>1, <2>3 DEF Chained
<1>4. ASSUME NEW i \in 1..n, f[i].place = xs[i].request.page
      PROVE  next[i] = xs[i].link
  <2>1. xs[i] \in Exchanges
    BY <1>1
  <2>2. next[i] = NextPage(t.contract, xs[i], xs[i].request.page)
    BY <1>3, <1>4
  <2>3. xs[i].link \in {NoRequest, Following(xs[i].request)}
    BY <2>1 DEF Exchanges, Shaped
  <2>4. xs[i].status # "ok" => xs[i].link = NoRequest
    BY <2>1 DEF Exchanges, Shaped
  <2>5. [xs[i].request EXCEPT !.page = xs[i].request.page + 1] = Following(xs[i].request)
    BY DEF Following
  <2>6. QED
    BY <2>2, <2>3, <2>4, <2>5 DEF NextPage
<1>5. Bad = {}
  <2> SUFFICES ASSUME Bad # {} PROVE FALSE
    OBVIOUS
  <2>0. Bad \subseteq Nat
    BY <1>1
  <2>1. PICK i \in Bad : \A k \in Bad : i <= k
    <3> HIDE DEF Bad
    <3> QED
      BY <2>0, Smallest
  <2>2. i \in 1..n /\ f[i].place # xs[i].request.page
    BY <2>1
  <2>3. xs[i].request \in Requests
    BY <1>1, <2>2 DEF Exchanges
  <2>4. xs[i].request.page \in Nat
    BY <2>3 DEF Requests
  <2>5. CASE i = 1
    BY <1>1, <1>3, <2>2, <2>5
  <2>6. CASE i > 1
    <3>1. i - 1 \in 1..n /\ ~(i <= i - 1) /\ i \in DOMAIN xs \ {1}
      BY <1>1, <2>2, <2>6
    <3>2. f[i - 1].place = xs[i - 1].request.page
      BY <2>1, <3>1
    <3>3. next[i - 1] = xs[i - 1].link
      BY <1>4, <3>1, <3>2
    <3>4. /\ xs[i - 1].request \in Requests
          /\ xs[i - 1].link \in {NoRequest, Following(xs[i - 1].request)}
      BY <1>1, <3>1 DEF Exchanges, Shaped
    <3>5. xs[i].request # NoRequest
      BY <2>3, RequestIsSome
    <3>6. CASE next[i - 1] = xs[i].request
      <4>1. xs[i].request = Following(xs[i - 1].request)
        BY <3>3, <3>4, <3>5, <3>6
      <4>2. xs[i].request.page = xs[i - 1].request.page + 1
        BY <3>4, <4>1 DEF Following, Requests
      <4>3. QED
        BY <1>3, <2>2, <2>6, <3>2, <3>6, <4>2
    <3>7. CASE next[i - 1] # xs[i].request
      <4>1. ~(xs[i].request.page > 0)
        BY <3>1, <3>3, <3>7
      <4>2. QED
        BY <1>3, <2>2, <2>4, <3>7, <4>1
    <3>8. QED
      BY <3>6, <3>7
  <2>7. QED
    BY <1>1, <2>2, <2>5, <2>6
<1>6. \A i \in 1..n : next[i] = xs[i].link
  BY <1>4, <1>5
<1>7. QED
  BY <1>1, <1>2, <1>6

-----------------------------------------------------------------------------
(***************************************************************************)
(* The invariant.                                                          *)
(***************************************************************************)
Endings ==
    {"collecting", "Exhausted", "Truncated", "abandoned", "UnsafeRedirect",
     "Unauthenticated", "PermissionDenied", "RateLimited", "NotFound", "Failed"}

\* TypeOK, with the shape of exchanges and pages below the limit.
Typed ==
    /\ contract \in Collected /\ limit \in Limits
    /\ stage \in 0..3
    /\ altered \in BOOLEAN
    /\ exchanges \in Seq(Retained(limit))
    /\ todo \subseteq {r \in Requests : r.page = 0}
    /\ request \in Requests \cup {NoRequest}
    /\ request # NoRequest => request.page < limit
    /\ cut \in Requests \cup {NoRequest}
    /\ cut # NoRequest => cut.page <= limit
    /\ ended \in Endings /\ (ended = "Truncated" => cut # NoRequest)

\* The populations of a stage, the first of which is the opening request.
Populations(k) ==
    CASE k = 0 -> {Opening(contract)}
      [] k = 1 -> StageOne
      [] k = 2 -> StageTwo
      [] k = 3 -> StageThree

\* Populations that were opened.
Asked == {r \in Requested(exchanges) \cup ({request} \ {NoRequest}) : r.page = 0}

\* Nothing of a population is left to read after x, and r can be read after x.
Settled(x) == x.link = NoRequest \/ ~FollowsPages(x.request.kind)
Follows(x, r) ==
    IF r.page = 0 THEN Settled(x) ELSE x.link = r /\ FollowsPages(r.kind)

\* The exchange that was retained last.
Newest == exchanges[Len(exchanges)]

\* Exchanges and the present request follow one another.
Walk ==
    /\ exchanges # <<>> => exchanges[1].request = Opening(contract)
    /\ \A i \in DOMAIN exchanges \ {1} : Follows(exchanges[i - 1], exchanges[i].request)
    /\ request # NoRequest =>
        IF exchanges = <<>> THEN request = Opening(contract) ELSE Follows(Newest, request)
    /\ ended \in {"collecting", "Exhausted"} /\ request = NoRequest /\ exchanges # <<>> =>
        Settled(Newest)
    /\ ended = "Truncated" =>
        exchanges # <<>> /\ Newest.link = cut /\ FollowsPages(Newest.request.kind)
    /\ Sealed /\ ~ThroughGh => exchanges # <<>>

\* The collection goes on or has not been refused.
Going == ended \in {"collecting", "Exhausted", "Truncated"}

\* Only the last exchange may be a refusal, and then it ended the collection.
Healthy ==
    \A i \in DOMAIN exchanges :
        exchanges[i].status = "ok" \/ (i = Len(exchanges) /\ ~Going)

\* What was opened belongs to the stages so far.
Staged ==
    /\ todo \subseteq Populations(stage)
    /\ Asked \subseteq UNION {Populations(k) : k \in 0..stage}
    /\ \A r \in Requested(exchanges) : First(r.kind, r.id) \in Requested(exchanges)
    /\ request # NoRequest =>
        First(request.kind, request.id) \in Asked \cap Populations(stage)
    /\ stage > 0 => exchanges # <<>>

\* Everything of the stages so far was opened or is about to be.
Covered ==
    Going =>
        /\ Populations(stage) \subseteq Asked \cup todo
        /\ \A k \in 0..3 : k < stage => Populations(k) \subseteq Requested(exchanges)
        /\ ended = "Exhausted" => stage = 3 /\ todo = {}

\* Nothing is opened twice.
Once ==
    /\ \A i, j \in DOMAIN exchanges :
        /\ exchanges[i].request.page = 0
        /\ exchanges[i].request = exchanges[j].request
        => i = j
    /\ request # NoRequest /\ request.page = 0 => request \notin Requested(exchanges)
    /\ todo \cap Asked = {}

\* The populations of a history are opened in the order of the plan.
Ordered ==
    contract \in Histories => \A p \in todo, q \in Asked : ~Before(p, q)

\* What holds of the collector until its transcript is altered.
Collecting ==
    /\ ended # "collecting" => request = NoRequest
    /\ Walk /\ Healthy /\ Staged /\ Covered /\ Once /\ Ordered

IInv == Typed /\ (~altered => Collecting)

-----------------------------------------------------------------------------
(***************************************************************************)
(* Typed is inductive.                                                     *)
(***************************************************************************)
LEMMA FollowingFacts ==
    ASSUME NEW r \in Requests
    PROVE  /\ Following(r) \in Requests /\ Following(r).page = r.page + 1
           /\ Following(r).kind = r.kind /\ Following(r).id = r.id
           /\ r.page \in Nat
BY DEF Following, Requests

LEMMA FirstFacts ==
    ASSUME NEW kind \in Kinds, NEW id \in Ids
    PROVE  /\ First(kind, id) \in Requests /\ First(kind, id).page = 0
           /\ First(kind, id).kind = kind /\ First(kind, id).id = id
BY DEF First, Page, Requests

LEMMA ListsFacts ==
    ASSUME NEW kind
    PROVE  /\ Lists(kind) \subseteq SUBSET (Heads \cup Pulls \cup {Protected})
           /\ {} \in Lists(kind)
           /\ kind = "activity" => Lists(kind) = SUBSET Heads
           /\ kind \in {"pulls", "pullrequests"} => Lists(kind) \subseteq SUBSET Pulls
BY DEF Lists

LEMMA AnswerFacts ==
    ASSUME NEW r \in Requests, NEW x \in Answers(r)
    PROVE  x \in Exchanges /\ x.request = r /\ x.status = "ok"
<1>0. PICK items \in Items(r.kind) :
            x \in {[request |-> r, status |-> "ok", link |-> link, found |-> found,
                     items |-> items, total |-> total] :
                        link \in Links(r), found \in Lists(r.kind),
                        total \in Totals(r, items)}
  BY DEF Answers
<1>1. PICK link \in Links(r), found \in Lists(r.kind), total \in Totals(r, items) :
            x = [request |-> r, status |-> "ok", link |-> link, found |-> found,
                 items |-> items, total |-> total]
  BY <1>0
<1>2. /\ link \in {NoRequest, Following(r)} /\ link \in Requests \cup {NoRequest}
      /\ r.kind \in Objects => link = NoRequest
  BY FollowingFacts DEF Links
<1>3. items \in Nat
  BY DEF Items
<1>4. total \in Nat \cup {Unreported} /\ (total # Unreported => r.page = 0)
  BY <1>3, FollowingFacts DEF Totals
<1>5. found \in SUBSET (Heads \cup Pulls \cup {Protected})
  BY ListsFacts
<1>6. x.request = r /\ x.status = "ok" /\ x.link = link /\ x.found = found /\ x.total = total
  BY <1>1
<1>7. Shaped(x)
  BY <1>2, <1>4, <1>6 DEF Shaped
<1>8. QED
  BY <1>1, <1>2, <1>3, <1>4, <1>5, <1>6, <1>7 DEF Exchanges

LEMMA RefusalFacts ==
    ASSUME NEW r \in Requests, NEW status \in Refusals \cup {"forbidden"}
    PROVE  LET x == Refusal(r, status) IN
           x \in Exchanges /\ x.request = r /\ x.status = status /\ x.link = NoRequest
<1> DEFINE x == Refusal(r, status)
<1>1. /\ x.request = r /\ x.status = status /\ x.link = NoRequest
      /\ x.found = {} /\ x.total = Unreported
      /\ x = [request |-> r, status |-> status, link |-> NoRequest, found |-> {},
              items |-> 0, total |-> Unreported]
  BY DEF Refusal
<1>2. Shaped(x)
  BY <1>1, ListsFacts DEF Shaped
<1>3. x \in [request : Requests, status : {"ok", "forbidden"} \cup Refusals,
            link : Requests \cup {NoRequest},
            found : SUBSET (Heads \cup Pulls \cup {Protected}),
            items : Nat, total : Nat \cup {Unreported}]
  BY <1>1
<1>4. QED
  BY <1>1, <1>2, <1>3 DEF Exchanges

\* What an exchange was.
LEMMA ExchangeFacts ==
    ASSUME Typed, NEW i \in DOMAIN exchanges
    PROVE  /\ exchanges[i] \in Exchanges /\ exchanges[i].request \in Requests
           /\ Shaped(exchanges[i])
           /\ exchanges[i].link \in Requests \cup {NoRequest}
           /\ exchanges[i].total \in Nat \cup {Unreported}
           /\ exchanges[i].request.page \in Nat /\ exchanges[i].request.page < limit
<1>1. exchanges[i] \in Exchanges /\ exchanges[i].request.page < limit
  BY DEF Typed, Retained
<1>2. QED
  BY <1>1 DEF Exchanges, Requests

LEMMA StageIds ==
    ASSUME Typed
    PROVE  /\ HeadsIn(exchanges) \subseteq Heads /\ PullsIn(exchanges) \subseteq Pulls
           /\ RevisionsIn(exchanges) \subseteq Revisions
<1>1. ASSUME NEW i \in DOMAIN exchanges
      PROVE  exchanges[i].found \in Lists(exchanges[i].request.kind)
  BY <1>1, ExchangeFacts DEF Shaped
<1>2. HeadsIn(exchanges) \subseteq Heads /\ PullsIn(exchanges) \subseteq Pulls
  BY <1>1, ListsFacts DEF HeadsIn, PullsIn, Named
<1>3. QED
  BY <1>2, TranscriptAssumption DEF RevisionsIn

LEMMA PopulationRequests ==
    ASSUME Typed, NEW k \in 0..3
    PROVE  Populations(k) \subseteq {r \in Requests : r.page = 0}
<1> DEFINE P == {r \in Requests : r.page = 0}
<1>1. \A kind \in Kinds, id \in Ids : First(kind, id) \in P
  BY FirstFacts
<1>2. NoId \in Ids /\ Heads \subseteq Ids /\ Pulls \subseteq Ids /\ Revisions \subseteq Ids
  BY DEF Ids
<1> HIDE DEF P
<1>3. Opening(contract) \in P
  BY <1>1, <1>2 DEF Opening, Kinds
<1>4. StageOne \subseteq P
  BY <1>1, <1>2 DEF StageOne, Kinds
<1>5. StageTwo \subseteq P
  BY <1>1, <1>2, StageIds DEF StageTwo, Kinds
<1>6. StageThree \subseteq P
  BY <1>1, <1>2, StageIds DEF StageThree, Kinds
<1>7. QED
  BY <1>3, <1>4, <1>5, <1>6 DEF Populations, P
LEMMA TypedInit == Init => Typed
<1> SUFFICES ASSUME Init PROVE Typed
  OBVIOUS
<1>1. Opening(contract) \in {r \in Requests : r.page = 0}
  BY FirstFacts DEF Opening, Kinds, Ids
<1>2. /\ contract \in Collected /\ limit \in Limits /\ stage \in 0..3 /\ altered = FALSE
      /\ request = NoRequest /\ cut = NoRequest /\ ended # "Truncated" /\ ended \in Endings
  BY DEF Init, Endings
<1>3. exchanges \in Seq(Retained(limit))
  BY DEF Init
<1>4. todo \subseteq {r \in Requests : r.page = 0}
  BY <1>1 DEF Init
<1>5. QED
  BY <1>2, <1>3, <1>4 DEF Typed

LEMMA PopulationsTyped ==
    ASSUME Typed, Proceed
    PROVE  todo' \subseteq {r \in Requests : r.page = 0}
<1>1. stage \in 0..3 /\ stage < 3
  BY DEF Typed, Proceed
<1>2. todo' = CASE stage = 0 -> StageOne
                 [] stage = 1 -> StageTwo
                 [] stage = 2 -> StageThree
  BY DEF Proceed
<1>3. stage = 0 \/ stage = 1 \/ stage = 2
  BY <1>1
<1>4. stage + 1 \in 0..3 /\ todo' = Populations(stage + 1)
  BY <1>2, <1>3 DEF Populations
<1>5. QED
  BY <1>4, PopulationRequests

LEMMA AnsweredTyped ==
    ASSUME Typed, Answered
    PROVE  Typed'
<1>1. request \in Requests /\ request.page \in Nat /\ request.page < limit /\ limit \in Nat
  BY AcquisitionAssumption DEF Answered, Reading, Typed, Requests
<1>2. PICK x \in Answers(request) :
        /\ exchanges' = Append(exchanges, x)
        /\ \/ /\ request' = NoRequest
              /\ UNCHANGED <<ended, cut>>
           \/ /\ x.link # NoRequest
              /\ IF AtLimit(request)
                 THEN /\ ended' = "Truncated" /\ cut' = x.link /\ request' = NoRequest
                 ELSE request' = x.link /\ UNCHANGED <<ended, cut>>
  BY DEF Answered
<1>3. x \in Exchanges /\ x.request = request
  BY <1>1, AnswerFacts
<1>4. x \in Retained(limit)
  BY <1>1, <1>3 DEF Retained
<1>5. UNCHANGED <<contract, limit, stage, todo, altered>>
  BY DEF Answered, plan
<1>6. x.link # NoRequest =>
        x.link \in Requests /\ x.link.page = request.page + 1
  BY <1>1, <1>3, FollowingFacts DEF Exchanges, Shaped
<1>7. exchanges' \in Seq(Retained(limit'))
  BY <1>2, <1>4, <1>5 DEF Typed
<1>8. /\ request' \in Requests \cup {NoRequest}
      /\ request' # NoRequest => request'.page < limit
      /\ cut' \in Requests \cup {NoRequest}
      /\ cut' # NoRequest => cut'.page <= limit
      /\ ended' = "Truncated" => cut' # NoRequest
      /\ ended' \in Endings
  BY <1>1, <1>2, <1>6 DEF AtLimit, Typed, Endings
<1>9. QED
  BY <1>5, <1>7, <1>8 DEF Typed

LEMMA RefuseTyped ==
    ASSUME Typed, Refuse
    PROVE  Typed'
<1>1. request \in Requests /\ request.page < limit /\ request' = NoRequest
  BY DEF Refuse, Reading, Typed
<1>2. UNCHANGED <<contract, limit, stage, todo, cut, altered>>
  BY DEF Refuse, plan
<1>3. PICK status \in Refusals :
        IF ThroughGh
        THEN ended' = ClassifyGh(status) /\ UNCHANGED exchanges
        ELSE ended' = Classify(status) /\ exchanges' = Append(exchanges, Refusal(request, status))
  BY DEF Refuse
<1>4. ended' # "Truncated" /\ ended' \in Endings
  BY <1>3, AcquisitionAssumption DEF ClassifyGh, Classify, Statuses, Endings
<1>5. Refusal(request, status) \in Retained(limit)
  BY <1>1, RefusalFacts DEF Retained
<1>6. exchanges' \in Seq(Retained(limit'))
  BY <1>2, <1>3, <1>5 DEF Typed
<1>7. QED
  BY <1>1, <1>2, <1>4, <1>6 DEF Typed

\* A request of something else is still a request.
LEMMA RenamedFacts ==
    ASSUME NEW n, NEW x \in Retained(n), NEW id \in Ids
    PROVE  [x EXCEPT !.request.id = id,
                     !.link = IF @ = NoRequest THEN @ ELSE [@ EXCEPT !.id = id]]
                \in Retained(n)
<1> DEFINE y == [x EXCEPT !.request.id = id,
                          !.link = IF @ = NoRequest THEN @ ELSE [@ EXCEPT !.id = id]]
<1>1. x \in Exchanges /\ Shaped(x) /\ x.request \in Requests
  BY DEF Retained, Exchanges
<1>2. /\ y.request = [x.request EXCEPT !.id = id] /\ y.status = x.status
      /\ y.link = IF x.link = NoRequest THEN NoRequest ELSE [x.link EXCEPT !.id = id]
      /\ y.found = x.found /\ y.items = x.items /\ y.total = x.total
  BY <1>1 DEF Exchanges
<1>3. /\ y.request \in Requests /\ y.request.kind = x.request.kind
      /\ y.request.page = x.request.page
  BY <1>1, <1>2 DEF Requests
<1>4. y.link = IF x.link = NoRequest THEN NoRequest ELSE Following(y.request)
  <2>1. [Following(x.request) EXCEPT !.id = id] = Following(y.request)
    BY <1>1, <1>2 DEF Following, Requests
  <2>2. QED
    BY <1>1, <1>2, <2>1 DEF Shaped
<1>5. Shaped(y)
  BY <1>1, <1>2, <1>3, <1>4 DEF Shaped
<1>6. y \in [request : Requests, status : {"ok", "forbidden"} \cup Refusals,
            link : Requests \cup {NoRequest},
            found : SUBSET (Heads \cup Pulls \cup {Protected}),
            items : Nat, total : Nat \cup {Unreported}]
  <2>1. y.link \in Requests \cup {NoRequest}
    BY <1>3, <1>4, FollowingFacts
  <2>2. y = [request |-> y.request, status |-> y.status, link |-> y.link,
             found |-> y.found, items |-> y.items, total |-> y.total]
    <3>1. x = [request |-> x.request, status |-> x.status, link |-> x.link,
               found |-> x.found, items |-> x.items, total |-> x.total]
      BY <1>1 DEF Exchanges
    <3> DEFINE z == [x EXCEPT !.request.id = id]
    <3>2. z = [request |-> [x.request EXCEPT !.id = id], status |-> x.status,
               link |-> x.link, found |-> x.found, items |-> x.items, total |-> x.total]
      BY <3>1
    <3>3. y = [z EXCEPT !.link = IF @ = NoRequest THEN @ ELSE [@ EXCEPT !.id = id]]
      BY <3>1
    <3> HIDE DEF z
    <3>4. y = [request |-> z.request, status |-> z.status, link |-> y.link,
               found |-> z.found, items |-> z.items, total |-> z.total]
      BY <3>2, <3>3
    <3>5. z.request = y.request
      BY <3>3, <3>2
    <3>6. QED
      BY <3>2, <3>4, <1>2, <3>5
  <2>3. x.status \in {"ok", "forbidden"} \cup Refusals
        /\ x.found \in SUBSET (Heads \cup Pulls \cup {Protected})
        /\ x.items \in Nat /\ x.total \in Nat \cup {Unreported}
    BY <1>1 DEF Exchanges
  <2> HIDE DEF y
  <2>4. QED
    BY <1>2, <1>3, <2>1, <2>2, <2>3
<1>7. QED
  BY <1>1, <1>3, <1>5, <1>6 DEF Retained, Exchanges

LEMMA OtherExchangesTyped ==
    ASSUME Typed, NEW ys \in OtherExchanges
    PROVE  ys \in Seq(Retained(limit))
<1> DEFINE xs == exchanges
           S == Retained(limit)
<1>0. xs \in Seq(S) /\ limit \in Nat /\ Len(xs) \in Nat /\ DOMAIN xs = 1..Len(xs)
  BY AcquisitionAssumption DEF Typed
<1>1. ASSUME NEW i \in DOMAIN xs PROVE RemoveAt(xs, i) \in Seq(S)
  <2>1. SubSeq(xs, 1, i - 1) \in Seq(S) /\ SubSeq(xs, i + 1, Len(xs)) \in Seq(S)
    BY <1>0, SubSeqProperties
  <2>2. QED
    BY <2>1, ConcatProperties DEF RemoveAt
<1>2. ASSUME NEW i \in 1..(Len(xs) - 1)
      PROVE  [xs EXCEPT ![i] = xs[i + 1], ![i + 1] = xs[i]] \in Seq(S)
  <2>1. xs[i] \in S /\ xs[i + 1] \in S
    BY <1>0
  <2> HIDE DEF S
  <2>2. QED
    BY <1>0, <2>1
<1>3. ASSUME NEW i \in DOMAIN xs, NEW id \in OtherIds(xs[i].request)
      PROVE  [xs EXCEPT ![i].request.id = id,
                        ![i].link = IF @ = NoRequest THEN @
                                    ELSE [@ EXCEPT !.id = id]] \in Seq(S)
  <2>1. id \in Ids
    BY DEF OtherIds, Ids
  <2>2. xs[i] \in S
    BY <1>0
  <2> DEFINE y == [xs[i] EXCEPT !.request.id = id,
                     !.link = IF @ = NoRequest THEN @ ELSE [@ EXCEPT !.id = id]]
  <2>3. y \in S
    BY <2>1, <2>2, RenamedFacts
  <2>4. [xs EXCEPT ![i].request.id = id,
                   ![i].link = IF @ = NoRequest THEN @ ELSE [@ EXCEPT !.id = id]]
          = [xs EXCEPT ![i] = y]
    BY <1>0
  <2> HIDE DEF y, S
  <2>5. QED
    BY <1>0, <2>3, <2>4
<1>4. ASSUME NEW i \in DOMAIN xs
      PROVE  [xs EXCEPT ![i] = Refusal(xs[i].request, "forbidden")] \in Seq(S)
  <2>1. Refusal(xs[i].request, "forbidden") \in S
    BY ExchangeFacts, RefusalFacts DEF Retained
  <2> HIDE DEF S
  <2>2. QED
    BY <1>0, <2>1
<1>5. CASE ys \in {RemoveAt(xs, i) : i \in DOMAIN xs}
  BY <1>1, <1>5
<1>6. CASE ys \in {[xs EXCEPT ![i] = xs[i + 1], ![i + 1] = xs[i]] : i \in 1..(Len(xs) - 1)}
  BY <1>2, <1>6
<1>7. CASE ys \in UNION {{[xs EXCEPT ![i].request.id = id,
                                    ![i].link = IF @ = NoRequest THEN @
                                                ELSE [@ EXCEPT !.id = id]] :
                             id \in OtherIds(xs[i].request)} : i \in DOMAIN xs}
  <2>1. PICK i \in DOMAIN xs :
            ys \in {[xs EXCEPT ![i].request.id = id,
                              ![i].link = IF @ = NoRequest THEN @
                                          ELSE [@ EXCEPT !.id = id]] :
                       id \in OtherIds(xs[i].request)}
    BY <1>7
  <2>2. QED
    BY <1>3, <2>1
<1>8. CASE ys \in {[xs EXCEPT ![i] = Refusal(xs[i].request, "forbidden")] : i \in DOMAIN xs}
  BY <1>4, <1>8
<1>9. QED
  BY <1>5, <1>6, <1>7, <1>8 DEF OtherExchanges

LEMMA ResealTyped ==
    ASSUME Typed, Reseal
    PROVE  Typed'
<1>0. /\ UNCHANGED <<contract, limit, stage, todo, request>> /\ altered' = TRUE
      /\ limit \in Nat /\ Len(exchanges) \in Nat /\ DOMAIN exchanges = 1..Len(exchanges)
  BY AcquisitionAssumption DEF Reseal, plan, Typed
<1>1. CASE exchanges' \in OtherExchanges /\ UNCHANGED <<ended, cut>>
  BY <1>0, <1>1, OtherExchangesTyped DEF Typed
<1>2. CASE ended' = "Exhausted" /\ cut' = NoRequest /\ UNCHANGED exchanges
  BY <1>0, <1>2 DEF Typed, Endings
<1>3. CASE /\ exchanges # <<>> /\ ended' = "Truncated"
           /\ cut' = Following(exchanges[Len(exchanges)].request)
           /\ UNCHANGED exchanges
  <2>1. Len(exchanges) \in DOMAIN exchanges
    BY <1>0, <1>3 DEF Typed
  <2>2. cut' \in Requests /\ cut'.page <= limit
    BY <1>0, <1>3, <2>1, ExchangeFacts, FollowingFacts
  <2>3. QED
    BY <1>0, <1>3, <2>2, RequestIsSome DEF Typed, Endings
<1>4. CASE \E n \in 1..(Len(exchanges) - 1) :
            /\ exchanges' = SubSeq(exchanges, 1, n) /\ ended' = "Truncated"
            /\ cut' = exchanges[n + 1].request
  <2>1. PICK n \in 1..(Len(exchanges) - 1) :
            /\ exchanges' = SubSeq(exchanges, 1, n) /\ ended' = "Truncated"
            /\ cut' = exchanges[n + 1].request
    BY <1>4
  <2>2. SubSeq(exchanges, 1, n) \in Seq(Retained(limit))
    BY <1>0, SubSeqProperties DEF Typed
  <2>3. cut' \in Requests /\ cut'.page <= limit
    BY <1>0, <2>1, ExchangeFacts
  <2>4. QED
    BY <1>0, <2>1, <2>2, <2>3, RequestIsSome DEF Typed, Endings
<1>5. QED
  BY <1>1, <1>2, <1>3, <1>4 DEF Reseal

LEMMA TypedStep ==
    ASSUME Typed, [Next]_vars
    PROVE  Typed'
<1>1. CASE Open
  <2>0. limit \in Nat \ {0}
    BY AcquisitionAssumption DEF Typed
  <2>1. QED
    BY <1>1, <2>0 DEF Open, plan, Typed
<1>2. CASE Proceed
  BY <1>2, PopulationsTyped DEF Proceed, plan, Typed
<1>3. CASE Exhaust
  BY <1>3 DEF Exhaust, plan, Typed, Endings
<1>4. CASE Answered
  BY <1>4, AnsweredTyped
<1>5. CASE Refuse
  BY <1>5, RefuseTyped
<1>6. CASE Abandon
  BY <1>6 DEF Abandon, plan, Typed, Endings
<1>7. CASE Reseal
  BY <1>7, ResealTyped
<1>8. CASE UNCHANGED vars
  BY <1>8 DEF vars, Typed
<1>9. QED
  BY <1>1, <1>2, <1>3, <1>4, <1>5, <1>6, <1>7, <1>8 DEF Next

LEMMA TypedTypeOK == Typed => TypeOK
<1> SUFFICES ASSUME Typed PROVE TypeOK
  OBVIOUS
<1>1. \A r \in Requests : r.id \in Ids /\ r.page \in Nat
  BY DEF Requests
<1>2. limit \in Nat
  BY AcquisitionAssumption DEF Typed
<1>3. \A r \in Requested(exchanges) : r \in Requests /\ r.page < limit
  BY ExchangeFacts DEF Requested
<1>4. \A r \in todo \cup Requested(exchanges) \cup ({request, cut} \ {NoRequest}) :
        r.id \in Ids /\ r.page \in 0..limit
  BY <1>1, <1>2, <1>3 DEF Typed
<1>5. \A i \in DOMAIN exchanges :
        /\ exchanges[i].request.page < limit
        /\ exchanges[i].status \in {"ok"} \cup Refusals \cup {"forbidden"}
        /\ exchanges[i].found \subseteq Heads \cup Pulls \cup {Protected}
  BY ExchangeFacts DEF Exchanges
<1>6. QED
  BY <1>4, <1>5 DEF TypeOK, Typed, Ids

-----------------------------------------------------------------------------
(***************************************************************************)
(* Collecting is inductive while the transcript is the collector's.        *)
(***************************************************************************)
LEMMA Appended ==
    ASSUME NEW s \in Seq(Exchanges), NEW x \in Exchanges
    PROVE  LET e == Append(s, x) IN
           /\ e \in Seq(Exchanges) /\ e # <<>> /\ Len(e) = Len(s) + 1 /\ Len(s) \in Nat
           /\ DOMAIN s = 1..Len(s) /\ DOMAIN e = 1..(Len(s) + 1)
           /\ \A i \in 1..Len(s) : e[i] = s[i]
           /\ e[Len(s) + 1] = x
           /\ Requested(e) = Requested(s) \cup {x.request}
           /\ \A kinds : x.request.kind \notin kinds => Named(e, kinds) = Named(s, kinds)
<1> DEFINE e == Append(s, x)
<1>1. /\ e \in Seq(Exchanges) /\ e # <<>> /\ Len(e) = Len(s) + 1 /\ Len(s) \in Nat
      /\ DOMAIN s = 1..Len(s) /\ DOMAIN e = 1..(Len(s) + 1)
      /\ \A i \in 1..Len(s) : e[i] = s[i]
      /\ e[Len(s) + 1] = x
  BY AppendProperties
<1> HIDE DEF e
<1>2. Requested(e) = Requested(s) \cup {x.request}
  BY <1>1 DEF Requested
<1>3. ASSUME NEW kinds, x.request.kind \notin kinds PROVE Named(e, kinds) = Named(s, kinds)
  <2>1. {j \in DOMAIN e : e[j].request.kind \in kinds}
            = {j \in DOMAIN s : s[j].request.kind \in kinds}
    BY <1>1, <1>3
  <2>2. \A i \in {j \in DOMAIN s : s[j].request.kind \in kinds} : e[i].found = s[i].found
    BY <1>1
  <2>3. QED
    BY <2>1, <2>2 DEF Named
<1>4. QED
  BY <1>1, <1>2, <1>3 DEF e

LEMMA PopulationsAre ==
    /\ Populations(0) = {Opening(contract)} /\ Populations(1) = StageOne
    /\ Populations(2) = StageTwo /\ Populations(3) = StageThree
BY DEF Populations

\* The populations of a stage have its rank in the plan.
LEMMA PopulationRanks ==
    ASSUME Typed, NEW k \in 0..3, NEW r \in Populations(k)
    PROVE  /\ contract \in Histories => Rank(r.kind) = k
           /\ contract \notin Histories => k \in {0, 1} /\ (Rank(r.kind) = 0 <=> k = 0)
           /\ First(r.kind, r.id) = r
<1>0. First(r.kind, r.id) = r
  <2>1. r \in Requests /\ r.page = 0
    BY PopulationRequests
  <2>2. QED
    BY <2>1 DEF Requests, First, Page
<1>1. \A kind, id : First(kind, id).kind = kind
  BY DEF First, Page
<1>2. /\ \A kind \in {"repository", "branch", "gh_protection"} : Rank(kind) = 0
      /\ \A kind \in {"activity", "pushes"} : Rank(kind) = 1
      /\ \A kind \in {"pulls", "pullrequests"} : Rank(kind) = 2
      /\ \A kind \in {"reviews", "check_runs", "status", "threads", "evaluations",
                        "commits", "protection", "configurations"} : Rank(kind) = 3
  BY DEF Rank
<1>3. CASE k = 0
  <2>1. r.kind \in {"repository", "branch", "gh_protection"}
    <3>1. r = Opening(contract)
      BY <1>3, PopulationsAre
    <3>2. QED
      BY <1>1, <3>1 DEF Opening
  <2>2. QED
    BY <1>0, <1>2, <1>3, <2>1
<1>4. CASE k = 1
  <2>1. r \in StageOne
    BY <1>4, PopulationsAre
  <2>2. CASE contract \in Histories
    <3>1. r.kind \in {"activity", "pushes"}
      BY <1>1, <2>1, <2>2 DEF StageOne, Histories, GithubHistories, AzureHistories
    <3>2. QED
      BY <1>0, <1>2, <1>4, <2>2, <3>1
  <2>3. CASE contract \notin Histories
    <3>1. r.kind \in {"commits", "check_runs", "status", "protection", "configurations"}
      BY <1>1, <2>1, <2>3 DEF StageOne, Histories, GithubHistories, AzureHistories
    <3>2. QED
      BY <1>0, <1>2, <1>4, <2>3, <3>1
  <2>4. QED
    BY <2>2, <2>3
<1>5. CASE k = 2
  <2>1. r \in StageTwo
    BY <1>5, PopulationsAre
  <2>2. contract \in Histories /\ r.kind \in {"pulls", "pullrequests"}
    BY <1>1, <2>1 DEF StageTwo, Histories
  <2>3. QED
    BY <1>0, <1>2, <1>5, <2>2
<1>6. CASE k = 3
  <2>1. r \in StageThree
    BY <1>6, PopulationsAre
  <2>2. /\ contract \in Histories
        /\ r.kind \in {"reviews", "check_runs", "status", "threads", "evaluations"}
    BY <1>1, <2>1 DEF StageThree, Histories, GithubHistories, AzureHistories
  <2>3. QED
    BY <1>0, <1>2, <1>6, <2>2
<1>7. QED
  BY <1>3, <1>4, <1>5, <1>6

LEMMA Apart ==
    ASSUME Typed, NEW j \in 0..3, NEW k \in 0..3, j < k
    PROVE  Populations(j) \cap Populations(k) = {}
<1> SUFFICES ASSUME NEW r \in Populations(j), r \in Populations(k) PROVE FALSE
  OBVIOUS
<1>1. j # k /\ (k = 0 => FALSE)
  OBVIOUS
<1>2. QED
  BY <1>1, PopulationRanks

LEMMA BeforeFacts ==
    ASSUME NEW p \in Requests, NEW q \in Requests
    PROVE  /\ Before(p, q) => ~Before(q, p)
           /\ Before(p, q) => Rank(p.kind) <= Rank(q.kind)
<1>1. p.id \in Int /\ q.id \in Int
  <2>1. Ids \subseteq Int
    BY TranscriptAssumption DEF Ids, NoId, Elsewhere
  <2>2. QED
    BY <2>1 DEF Requests
<1>2. Rank(p.kind) \in 0..3 /\ Rank(q.kind) \in 0..3
  BY DEF Rank
<1>3. Rank("check_runs") = Rank("status")
  BY DEF Rank
<1>4. QED
  BY <1>1, <1>2, <1>3 DEF Before

\* The populations of a stage stay the same while it is read: they were named
\* by responses of the stages before.
LEMMA SamePopulations ==
    ASSUME Typed, Staged, request # NoRequest, contract' = contract,
           NEW x \in Exchanges, x.request = request, exchanges' = Append(exchanges, x),
           NEW k \in 0..stage
    PROVE  Populations(k)' = Populations(k)
<1>0. exchanges \in Seq(Exchanges) /\ k \in 0..3 /\ stage \in 0..3 /\ k <= stage
  BY DEF Typed, Retained
<1>1. PICK p \in Populations(stage) : p.kind = request.kind
  BY FirstFacts DEF Staged, First, Page
<1>2. contract \in Histories => Rank(request.kind) = stage
  BY <1>0, <1>1, PopulationRanks
<1>3. CASE k = 0
  BY <1>3 DEF Populations
<1>4. CASE k = 1
  <2>1. stage > 0 /\ exchanges # <<>>
    BY <1>0, <1>4 DEF Staged
  <2>2. 1 \in 1..Len(exchanges)
    BY <1>0, <2>1
  <2>3. exchanges'[1] = exchanges[1]
    BY <1>0, <2>2, Appended
  <2>4. StageOne' = StageOne
    BY <2>3 DEF StageOne
  <2>5. QED
    BY <1>4, <2>4 DEF Populations
<1>5. CASE k = 2
  <2>1. contract \in GithubHistories => HeadsIn(exchanges') = HeadsIn(exchanges)
    <3>1. contract \in GithubHistories => request.kind \notin {"activity"}
      BY <1>0, <1>2, <1>5 DEF Histories, Rank
    <3>2. QED
      BY <1>0, <3>1, Appended DEF HeadsIn
  <2>2. StageTwo' = StageTwo
    BY <2>1 DEF StageTwo
  <2>3. QED
    BY <1>5, <2>2 DEF Populations
<1>6. CASE k = 3
  <2>1. contract \in Histories =>
            /\ PullsIn(exchanges') = PullsIn(exchanges)
            /\ RevisionsIn(exchanges') = RevisionsIn(exchanges)
    <3>1. contract \in Histories => request.kind \notin {"pulls", "pullrequests"}
      BY <1>0, <1>2, <1>6 DEF Rank
    <3>2. contract \in Histories => PullsIn(exchanges') = PullsIn(exchanges)
      BY <1>0, <3>1, Appended DEF PullsIn
    <3>3. QED
      BY <3>2 DEF RevisionsIn
  <2>2. StageThree' = StageThree
    BY <2>1 DEF StageThree, Histories, GithubHistories, AzureHistories
  <2>3. QED
    BY <1>6, <2>2 DEF Populations
<1>7. QED
  BY <1>0, <1>3, <1>4, <1>5, <1>6

-----------------------------------------------------------------------------
LEMMA CollectingInit == Init => Collecting
<1> SUFFICES ASSUME Init PROVE Collecting
  OBVIOUS
<1>1. /\ exchanges = <<>> /\ DOMAIN exchanges = {} /\ request = NoRequest /\ stage = 0
      /\ todo = {Opening(contract)} /\ ended = "collecting"
  BY DEF Init
<1>2. Requested(exchanges) = {} /\ Asked = {}
  BY <1>1 DEF Requested, Asked
<1>3. Walk /\ Healthy
  BY <1>1 DEF Walk, Healthy, Sealed
<1>4. Staged
  BY <1>1, <1>2, PopulationsAre DEF Staged
<1>5. Covered
  BY <1>1, <1>2, PopulationsAre DEF Covered
<1>6. Once /\ Ordered
  BY <1>1, <1>2 DEF Once, Ordered
<1>7. QED
  BY <1>1, <1>3, <1>4, <1>5, <1>6 DEF Collecting

LEMMA CollectingOpen ==
    ASSUME Typed, Collecting, Open
    PROVE  Collecting'
<1>1. PICK p \in todo :
        /\ \A q \in todo \ {p} : Before(p, q)
        /\ request' = p /\ todo' = todo \ {p}
  BY DEF Open
<1>2. /\ UNCHANGED <<contract, limit, stage, exchanges, ended, cut, altered>>
      /\ ended = "collecting" /\ request = NoRequest
  BY DEF Open, plan
<1>3. p \in Requests /\ p.page = 0 /\ p # NoRequest /\ p \in Populations(stage)
  BY <1>1, RequestIsSome DEF Typed, Collecting, Staged
<1>4. First(p.kind, p.id) = p
  BY <1>3, PopulationRanks DEF Typed
<1>5. \A k : Populations(k)' = Populations(k)
  BY <1>2 DEF Populations, StageOne, StageTwo, StageThree
<1>6. Asked' = Asked \cup {p} /\ Asked \subseteq Requested(exchanges)
  BY <1>1, <1>2, <1>3 DEF Asked
<1>7. p \notin Asked /\ p \notin Requested(exchanges)
  BY <1>1, <1>3 DEF Collecting, Once, Asked
<1>8. Walk'
  <2>1. CASE exchanges = <<>>
    <3>1. stage = 0
      BY <2>1 DEF Collecting, Staged, Typed
    <3>2. p = Opening(contract)
      BY <1>3, <3>1, PopulationsAre
    <3>3. DOMAIN exchanges = {}
      BY <2>1
    <3>4. QED
      BY <1>1, <1>2, <2>1, <3>2, <3>3 DEF Walk, Sealed
  <2>2. CASE exchanges # <<>>
    <3>1. Settled(Newest)
      BY <1>2, <2>2 DEF Collecting, Walk
    <3>2. Follows(Newest, p)
      BY <1>3, <3>1 DEF Follows
    <3>3. Newest' = Newest
      BY <1>2 DEF Newest
    <3>4. QED
      BY <1>1, <1>2, <1>3, <2>2, <3>2, <3>3 DEF Collecting, Walk, Sealed
  <2>3. QED
    BY <2>1, <2>2
<1>9. Healthy'
  BY <1>2 DEF Collecting, Healthy, Going
<1>10. Staged'
  <2>1. Populations(stage)' = Populations(stage)
    BY <1>2, <1>5
  <2>2. UNION {Populations(k)' : k \in 0..stage} = UNION {Populations(k) : k \in 0..stage}
    BY <1>5
  <2>3. p \in UNION {Populations(k) : k \in 0..stage}
    BY <1>3 DEF Typed
  <2>4. Asked' \subseteq UNION {Populations(k)' : k \in 0..stage}
    BY <1>6, <2>2, <2>3 DEF Collecting, Staged
  <2>5. First(request'.kind, request'.id) \in Asked' \cap Populations(stage)'
    BY <1>1, <1>3, <1>4, <1>6, <2>1
  <2>6. todo' \subseteq Populations(stage)'
    BY <1>1, <2>1 DEF Collecting, Staged
  <2>7. QED
    BY <1>2, <2>4, <2>5, <2>6 DEF Collecting, Staged
<1>11. Covered'
  <2>1. Going /\ ended' # "Exhausted"
    BY <1>2 DEF Going
  <2>2. Populations(stage) \subseteq Asked \cup todo
    BY <2>1 DEF Collecting, Covered
  <2>3. Populations(stage)' \subseteq Asked' \cup todo'
    BY <1>1, <1>2, <1>5, <1>6, <2>2
  <2>4. \A k \in 0..3 : k < stage => Populations(k)' \subseteq Requested(exchanges)
    BY <1>5, <2>1 DEF Collecting, Covered
  <2>5. QED
    BY <1>2, <2>1, <2>3, <2>4 DEF Covered
<1>12. Once'
  BY <1>1, <1>2, <1>6, <1>7 DEF Collecting, Once
<1>13. Ordered'
  <2>1. \A q \in todo \ {p} : ~Before(q, p)
    BY <1>1, <1>3, BeforeFacts DEF Typed
  <2>2. contract' \in Histories => contract \in Histories
    BY <1>2
  <2>3. QED
    BY <1>1, <1>6, <2>1, <2>2 DEF Collecting, Ordered
<1>14. QED
  BY <1>2, <1>8, <1>9, <1>10, <1>11, <1>12, <1>13 DEF Collecting

LEMMA CollectingProceed ==
    ASSUME Typed, Collecting, Proceed
    PROVE  Collecting'
<1>1. /\ UNCHANGED <<contract, limit, request, exchanges, ended, cut, altered>>
      /\ ended = "collecting" /\ request = NoRequest /\ todo = {} /\ stage' = stage + 1
      /\ stage \in 0..3 /\ stage < 3
  BY DEF Proceed, plan, Typed
<1>2. stage + 1 \in 0..3 /\ todo' = Populations(stage + 1)
  <2>1. todo' = CASE stage = 0 -> StageOne
                 [] stage = 1 -> StageTwo
                 [] stage = 2 -> StageThree
    BY DEF Proceed
  <2>2. stage = 0 \/ stage = 1 \/ stage = 2
    BY <1>1
  <2>3. QED
    BY <2>1, <2>2, PopulationsAre
<1>3. \A k : Populations(k)' = Populations(k)
  BY <1>1 DEF Populations, StageOne, StageTwo, StageThree
<1>4. Populations(stage)' = todo'
  BY <1>1, <1>2 DEF Populations, StageOne, StageTwo, StageThree
<1>5. Asked' = Asked /\ Asked \subseteq Requested(exchanges)
  BY <1>1 DEF Asked
<1>6. Populations(stage) \subseteq Requested(exchanges)
  BY <1>1, <1>5 DEF Collecting, Covered, Going
<1>7. exchanges # <<>>
  <2>1. CASE stage = 0
    <3>1. Opening(contract) \in Requested(exchanges)
      BY <1>6, <2>1, PopulationsAre
    <3>2. QED
      BY <3>1 DEF Requested
  <2>2. CASE stage # 0
    BY <1>1, <2>2 DEF Collecting, Staged
  <2>3. QED
    BY <2>1, <2>2
<1>8. Walk'
  BY <1>1 DEF Collecting, Walk, Newest, Sealed
<1>9. Healthy'
  BY <1>1 DEF Collecting, Healthy, Going
<1>10. ASSUME NEW q \in Asked
      PROVE  \E k \in 0..stage : q \in Populations(k)
  BY <1>10 DEF Collecting, Staged
<1>11. Staged'
  <2>1. Asked' \subseteq UNION {Populations(k)' : k \in 0..(stage + 1)}
    <3>1. 0..stage \subseteq 0..(stage + 1)
      BY <1>1
    <3>2. QED
      BY <1>3, <1>5, <1>10, <3>1
  <2>2. todo' \subseteq Populations(stage)'
    BY <1>4
  <2>3. QED
    BY <1>1, <1>7, <2>1, <2>2 DEF Collecting, Staged
<1>12. Covered'
  <2>1. Populations(stage)' \subseteq Asked' \cup todo'
    BY <1>4
  <2>2. \A k \in 0..3 : k < stage + 1 => Populations(k)' \subseteq Requested(exchanges)
    <3>1. \A k \in 0..3 : k < stage + 1 => k < stage \/ k = stage
      BY <1>1
    <3>2. \A k \in 0..3 : k < stage => Populations(k) \subseteq Requested(exchanges)
      BY <1>1 DEF Collecting, Covered, Going
    <3>3. QED
      BY <1>3, <1>6, <3>1, <3>2
  <2>3. QED
    BY <1>1, <2>1, <2>2 DEF Covered
<1>13. Once'
  <2>1. todo' \cap Asked' = {}
    <3>1. ASSUME NEW q \in Asked PROVE q \notin todo'
      <4>1. PICK k \in 0..stage : q \in Populations(k)
        BY <1>10
      <4>2. k \in 0..3 /\ k < stage + 1
        BY <1>1
      <4>3. QED
        BY <1>2, <4>1, <4>2, Apart
    <3>2. QED
      BY <1>5, <3>1
  <2>2. QED
    BY <1>1, <2>1 DEF Collecting, Once
<1>14. Ordered'
  <2>1. SUFFICES ASSUME contract \in Histories, NEW p \in todo', NEW q \in Asked
                 PROVE  ~Before(p, q)
    BY <1>1, <1>5 DEF Ordered
  <2>2. PICK k \in 0..stage : q \in Populations(k)
    BY <1>10
  <2>3. k \in 0..3 /\ k < stage + 1
    BY <1>1
  <2>4. Rank(q.kind) = k /\ Rank(p.kind) = stage + 1
    BY <1>2, <2>1, <2>2, <2>3, PopulationRanks
  <2>5. p \in Requests /\ q \in Requests
    BY <1>2, <2>2, <2>3, PopulationRequests
  <2>6. QED
    BY <1>1, <2>3, <2>4, <2>5, BeforeFacts
<1>15. QED
  BY <1>1, <1>8, <1>9, <1>11, <1>12, <1>13, <1>14 DEF Collecting

LEMMA CollectingExhaust ==
    ASSUME Typed, Collecting, Exhaust
    PROVE  Collecting'
<1>1. /\ UNCHANGED <<contract, limit, stage, todo, request, exchanges, cut, altered>>
      /\ ended = "collecting" /\ request = NoRequest /\ todo = {} /\ stage = 3
      /\ ended' = "Exhausted"
  BY DEF Exhaust, plan
<1>2. \A k : Populations(k)' = Populations(k)
  BY <1>1 DEF Populations, StageOne, StageTwo, StageThree
<1>3. Asked' = Asked /\ Going /\ Going'
  BY <1>1 DEF Asked, Going
<1>4. Walk' /\ Healthy'
  <2>1. exchanges # <<>>
    BY <1>1 DEF Collecting, Staged
  <2>2. QED
    BY <1>1, <1>3, <2>1 DEF Collecting, Walk, Newest, Healthy
<1>5. Staged'
  <2>1. UNION {Populations(k)' : k \in 0..stage} = UNION {Populations(k) : k \in 0..stage}
    BY <1>2
  <2>2. QED
    BY <1>1, <1>2, <1>3, <2>1 DEF Collecting, Staged
<1>6. Covered'
  BY <1>1, <1>2, <1>3 DEF Collecting, Covered
<1>7. Once' /\ Ordered'
  BY <1>1, <1>3 DEF Collecting, Once, Ordered
<1>8. QED
  BY <1>1, <1>4, <1>5, <1>6, <1>7 DEF Collecting

\* The population being read is dropped.
LEMMA CollectingDrop ==
    ASSUME Typed, Collecting, Reading, request' = NoRequest, ~Going', ended' # "collecting",
           ThroughGh \/ ended' = "abandoned",
           UNCHANGED <<contract, limit, stage, todo, exchanges>>
    PROVE  Collecting'
<1>1. \A k : Populations(k)' = Populations(k)
  BY DEF Populations, StageOne, StageTwo, StageThree
<1>2. Asked' \subseteq Asked
  BY DEF Asked
<1>3. Walk' /\ Healthy'
  BY DEF Collecting, Walk, Newest, Healthy, Going, Sealed, ThroughGh
<1>4. Staged'
  <2>1. UNION {Populations(k)' : k \in 0..stage} = UNION {Populations(k) : k \in 0..stage}
    BY <1>1
  <2>2. QED
    BY <1>1, <1>2, <2>1 DEF Collecting, Staged
<1>5. Covered' /\ Once' /\ Ordered'
  BY <1>2 DEF Collecting, Covered, Once, Ordered
<1>6. QED
  BY <1>3, <1>4, <1>5 DEF Collecting

\* A response is retained.
LEMMA CollectingAppend ==
    ASSUME Typed, Collecting, Reading,
           NEW x \in Exchanges, x.request = request, exchanges' = Append(exchanges, x),
           UNCHANGED <<contract, limit, stage, todo>>,
           request' = NoRequest \/ (request' = x.link /\ FollowsPages(request.kind)),
           ended' # "collecting" => request' = NoRequest,
           ended' # "Exhausted",
           Going' => x.status = "ok",
           ended' = "collecting" /\ request' = NoRequest => Settled(x),
           ended' = "Truncated" => x.link = cut' /\ FollowsPages(request.kind)
    PROVE  Collecting'
<1>1. /\ exchanges \in Seq(Exchanges) /\ Len(exchanges) \in Nat /\ stage \in 0..3
      /\ ended = "collecting" /\ request # NoRequest /\ request \in Requests
  BY DEF Typed, Retained, Reading
<1> DEFINE n == Len(exchanges)
<1>2. /\ exchanges' # <<>> /\ Len(exchanges') = n + 1
      /\ DOMAIN exchanges = 1..n /\ DOMAIN exchanges' = 1..(n + 1)
      /\ \A i \in 1..n : exchanges'[i] = exchanges[i]
      /\ exchanges'[n + 1] = x
      /\ Requested(exchanges') = Requested(exchanges) \cup {request}
  BY <1>1, Appended
<1>3. request' # NoRequest =>
        /\ request' = x.link /\ request' = Following(request)
        /\ request'.page = request.page + 1 /\ request'.page # 0
        /\ request'.kind = request.kind /\ request'.id = request.id
  BY <1>1, FollowingFacts DEF Exchanges, Shaped
<1>4. Asked' = Asked
  BY <1>1, <1>2, <1>3 DEF Asked
<1>5. \A k \in 0..stage : Populations(k)' = Populations(k)
  <2>1. SUFFICES ASSUME NEW k \in 0..stage PROVE Populations(k)' = Populations(k)
    OBVIOUS
  <2>2. QED
    BY <1>1, SamePopulations DEF Collecting
<1>6. Populations(stage)' = Populations(stage)
  <2>1. PICK m \in 0..stage : m = stage
    BY <1>1
  <2>2. Populations(m)' = Populations(m)
    BY <1>5
  <2>3. stage' = m
    BY <2>1
  <2>4. Populations(stage)' = Populations(m)'
    BY <2>3 DEF Populations, StageOne, StageTwo, StageThree
  <2>5. QED
    BY <2>1, <2>2, <2>4
<1>7. Newest' = x
  BY <1>2 DEF Newest
<1>8. Walk'
  <2>1. exchanges'[1].request = Opening(contract)
    <3>1. CASE exchanges = <<>>
      <4>1. n = 0 /\ request = Opening(contract)
        BY <1>1, <3>1 DEF Collecting, Walk
      <4>2. QED
        BY <1>2, <4>1
    <3>2. CASE exchanges # <<>>
      <4>1. 1 \in 1..n /\ exchanges[1].request = Opening(contract)
        BY <1>1, <3>2 DEF Collecting, Walk
      <4>2. QED
        BY <1>2, <4>1
    <3>3. QED
      BY <3>1, <3>2
  <2>2. ASSUME NEW i \in DOMAIN exchanges' \ {1}
        PROVE  Follows(exchanges'[i - 1], exchanges'[i].request)
    <3>1. CASE i \in 1..n
      <4>1. i - 1 \in 1..n /\ i \in DOMAIN exchanges \ {1}
        BY <1>1, <1>2, <2>2, <3>1
      <4>2. Follows(exchanges[i - 1], exchanges[i].request)
        BY <4>1 DEF Collecting, Walk
      <4>3. QED
        BY <1>2, <3>1, <4>1, <4>2
    <3>2. CASE i = n + 1
      <4>1. i - 1 = n /\ n \in 1..n /\ exchanges # <<>>
        BY <1>1, <2>2, <3>2
      <4>2. Follows(exchanges[n], request)
        BY <1>1, <4>1 DEF Collecting, Walk, Newest
      <4>3. exchanges'[i - 1] = exchanges[n] /\ exchanges'[i].request = request
        BY <1>2, <3>2, <4>1
      <4>4. QED
        BY <4>2, <4>3
    <3>3. QED
      BY <1>1, <1>2, <2>2, <3>1, <3>2
  <2>3. request' # NoRequest => Follows(x, request')
    BY <1>3 DEF Follows
  <2>4. \A i \in DOMAIN exchanges' \ {1} : Follows(exchanges'[i - 1], exchanges'[i].request)
    BY <2>2
  <2>5. ended' \in {"collecting", "Exhausted"} /\ request' = NoRequest => Settled(x)
    OBVIOUS
  <2>6. QED
    BY <1>2, <1>7, <2>1, <2>3, <2>4, <2>5 DEF Walk
<1>9. Healthy'
  <2>1. \A i \in 1..n : exchanges[i].status = "ok"
    BY <1>1, <1>2 DEF Collecting, Healthy, Going
  <2>2. \A i \in 1..(n + 1) : i \in 1..n \/ i = n + 1
    BY <1>1
  <2>3. QED
    BY <1>2, <2>1, <2>2 DEF Healthy
<1>10. Staged'
  <2>1. UNION {Populations(k)' : k \in 0..stage} = UNION {Populations(k) : k \in 0..stage}
    BY <1>5
  <2>2. First(request.kind, request.id) \in Asked \cap Populations(stage)
    BY <1>1 DEF Collecting, Staged
  <2>3. First(request.kind, request.id) \in Requested(exchanges')
    BY <1>2, <2>2 DEF Asked
  <2>4. \A r \in Requested(exchanges') : First(r.kind, r.id) \in Requested(exchanges')
    BY <1>2, <2>3 DEF Collecting, Staged
  <2>5. request' # NoRequest =>
            First(request'.kind, request'.id) \in Asked' \cap Populations(stage)'
    BY <1>3, <1>4, <1>6, <2>2
  <2>6. todo' \subseteq Populations(stage)'
    BY <1>6 DEF Collecting, Staged
  <2>7. Asked' \subseteq UNION {Populations(k)' : k \in 0..stage}
    BY <1>4, <2>1 DEF Collecting, Staged
  <2>8. QED
    BY <1>2, <2>4, <2>5, <2>6, <2>7 DEF Staged
<1>11. Covered'
  <2>1. Going
    BY <1>1 DEF Going
  <2>2. Populations(stage)' \subseteq Asked' \cup todo'
    BY <1>4, <1>6, <2>1 DEF Collecting, Covered
  <2>3. \A k \in 0..3 : k < stage => Populations(k)' \subseteq Requested(exchanges')
    <3>1. \A k \in 0..3 : k < stage => k \in 0..stage
      BY <1>1
    <3>2. \A k \in 0..3 : k < stage => Populations(k) \subseteq Requested(exchanges)
      BY <2>1 DEF Collecting, Covered
    <3>3. QED
      BY <1>2, <1>5, <3>1, <3>2
  <2>4. QED
    BY <2>2, <2>3 DEF Covered
<1>12. Once'
  <2>1. ASSUME NEW i \in DOMAIN exchanges', NEW j \in DOMAIN exchanges',
               exchanges'[i].request.page = 0,
               exchanges'[i].request = exchanges'[j].request
        PROVE  i = j
    <3>1. \A k \in 1..n : exchanges'[k] = exchanges[k] /\ exchanges[k].request \in Requested(exchanges)
      BY <1>2 DEF Requested
    <3>2. request.page = 0 => request \notin Requested(exchanges)
      BY <1>1 DEF Collecting, Once
    <3>3. i \in 1..n \/ i = n + 1
      BY <1>1, <1>2
    <3>4. j \in 1..n \/ j = n + 1
      BY <1>1, <1>2
    <3>5. CASE i \in 1..n /\ j \in 1..n
      BY <1>2, <2>1, <3>5 DEF Collecting, Once
    <3>6. CASE i \in 1..n /\ j = n + 1
      BY <1>2, <2>1, <3>1, <3>2, <3>6
    <3>7. CASE i = n + 1 /\ j \in 1..n
      BY <1>2, <2>1, <3>1, <3>2, <3>7
    <3>8. QED
      BY <3>3, <3>4, <3>5, <3>6, <3>7
  <2>2. todo' \cap Asked' = {}
    BY <1>4 DEF Collecting, Once
  <2>3. \A i, j \in DOMAIN exchanges' :
            exchanges'[i].request.page = 0 /\ exchanges'[i].request = exchanges'[j].request
                => i = j
    BY <2>1
  <2>4. request' # NoRequest /\ request'.page = 0 => request' \notin Requested(exchanges')
    BY <1>3
  <2>5. QED
    BY <2>2, <2>3, <2>4 DEF Once
<1>13. Ordered'
  BY <1>4 DEF Collecting, Ordered
<1>14. QED
  BY <1>8, <1>9, <1>10, <1>11, <1>12, <1>13 DEF Collecting

LEMMA CollectingAnswered ==
    ASSUME Typed, Collecting, Answered
    PROVE  Collecting'
<1>1. request \in Requests /\ Reading /\ UNCHANGED <<contract, limit, stage, todo>>
      /\ ended = "collecting"
  BY DEF Answered, Reading, Typed, plan
<1>2. PICK x \in Answers(request) :
        /\ exchanges' = Append(exchanges, x)
        /\ \/ /\ x.link = NoRequest \/ ~FollowsPages(request.kind)
              /\ request' = NoRequest
              /\ UNCHANGED <<ended, cut>>
           \/ /\ x.link # NoRequest /\ FollowsPages(request.kind)
              /\ IF AtLimit(request)
                 THEN /\ ended' = "Truncated" /\ cut' = x.link /\ request' = NoRequest
                 ELSE request' = x.link /\ UNCHANGED <<ended, cut>>
  BY DEF Answered
<1>3. x \in Exchanges /\ x.request = request /\ x.status = "ok"
  BY <1>1, AnswerFacts
<1>4. /\ request' = NoRequest \/ (request' = x.link /\ FollowsPages(request.kind))
      /\ ended' # "collecting" => request' = NoRequest
      /\ ended' # "Exhausted"
      /\ ended' = "Truncated" => x.link = cut' /\ FollowsPages(request.kind)
  BY <1>1, <1>2
<1>5. ended' = "collecting" /\ request' = NoRequest => Settled(x)
  BY <1>2, <1>3 DEF Settled
<1>6. QED
  BY <1>1, <1>2, <1>3, <1>4, <1>5, CollectingAppend

LEMMA CollectingRefuse ==
    ASSUME Typed, Collecting, Refuse
    PROVE  Collecting'
<1>1. request \in Requests /\ Reading /\ UNCHANGED <<contract, limit, stage, todo>>
      /\ request' = NoRequest
  BY DEF Refuse, Reading, Typed, plan
<1>2. PICK status \in Refusals :
        IF ThroughGh
        THEN ended' = ClassifyGh(status) /\ UNCHANGED exchanges
        ELSE ended' = Classify(status) /\ exchanges' = Append(exchanges, Refusal(request, status))
  BY DEF Refuse
<1>3. status \in Statuses \ {"ok"}
  BY AcquisitionAssumption
<1>4. ended' \notin {"collecting", "Exhausted", "Truncated"}
  BY <1>2, <1>3 DEF ClassifyGh, Classify, Statuses
<1>5. ~Going'
  BY <1>4 DEF Going
<1>6. CASE ThroughGh
  BY <1>1, <1>2, <1>4, <1>5, <1>6, CollectingDrop
<1>7. CASE ~ThroughGh
  <2> DEFINE x == Refusal(request, status)
  <2>1. x \in Exchanges /\ x.request = request /\ exchanges' = Append(exchanges, x)
    BY <1>1, <1>2, <1>7, RefusalFacts
  <2> HIDE DEF x
  <2>2. QED
    BY <1>1, <1>4, <1>5, <2>1, CollectingAppend
<1>8. QED
  BY <1>6, <1>7

\* The invariant of the collectors holds in every state, of their transcript
\* only until another is sealed.  (capture_*_with)
THEOREM Invariant == Spec => []IInv
<1>1. Init => IInv
  BY TypedInit, CollectingInit DEF IInv
<1>2. IInv /\ [Next]_vars => IInv'
  <2> SUFFICES ASSUME IInv, [Next]_vars PROVE IInv'
    OBVIOUS
  <2>0. Typed /\ Typed'
    BY TypedStep DEF IInv
  <2>1. SUFFICES ASSUME ~altered' PROVE Collecting'
    BY <2>0 DEF IInv
  <2>2. ~Reseal /\ (~altered)
    BY <2>1 DEF Next, vars, Open, Proceed, Exhaust, Answered, Refuse, Abandon, Reseal
  <2>3. Collecting
    BY <2>2 DEF IInv
  <2>4. CASE Open
    BY <2>0, <2>3, <2>4, CollectingOpen
  <2>5. CASE Proceed
    BY <2>0, <2>3, <2>5, CollectingProceed
  <2>6. CASE Exhaust
    BY <2>0, <2>3, <2>6, CollectingExhaust
  <2>7. CASE Answered
    BY <2>0, <2>3, <2>7, CollectingAnswered
  <2>8. CASE Refuse
    BY <2>0, <2>3, <2>8, CollectingRefuse
  <2>9. CASE Abandon
    <3>1. ~Going' /\ ended' = "abandoned"
      BY <2>9 DEF Abandon, Going
    <3>2. QED
      BY <2>0, <2>3, <2>9, <3>1, CollectingDrop DEF Abandon, plan
  <2>10. CASE UNCHANGED vars
    <3>1. \A k : Populations(k)' = Populations(k)
      BY <2>10 DEF vars, Populations, StageOne, StageTwo, StageThree
    <3>2. UNION {Populations(k)' : k \in 0..stage} = UNION {Populations(k) : k \in 0..stage}
      BY <3>1
    <3>3. Asked' = Asked /\ (Going' <=> Going)
      BY <2>10 DEF vars, Asked, Going
    <3>4. Walk' /\ Healthy'
      BY <2>3, <2>10 DEF vars, Collecting, Walk, Newest, Healthy, Going, Sealed, ThroughGh
    <3>5. Staged' /\ Covered'
      BY <2>3, <2>10, <3>1, <3>2, <3>3 DEF vars, Collecting, Staged, Covered
    <3>6. Once' /\ Ordered'
      BY <2>3, <2>10, <3>3 DEF vars, Collecting, Once, Ordered
    <3>7. QED
      BY <2>3, <2>10, <3>4, <3>5, <3>6 DEF vars, Collecting
  <2>11. QED
    BY <2>2, <2>4, <2>5, <2>6, <2>7, <2>8, <2>9, <2>10 DEF Next
<1>3. QED
  BY <1>1, <1>2, PTL DEF Spec

\* Type correctness: what is retained is of the repository's populations, and no
\* page at or past the limit is read of any of them.  (fetch_github_pages,
\* fetch_azure_list_pages)
THEOREM TypeCorrect == Spec => []TypeOK
<1>1. IInv => TypeOK
  BY TypedTypeOK DEF IInv
<1>2. QED
  BY <1>1, Invariant, PTL

-----------------------------------------------------------------------------
(***************************************************************************)
(* Any transcript: what is out of place in none, and what follows.         *)
(***************************************************************************)
LEMMA TranscriptFacts ==
    /\ Transcript.contract = contract /\ Transcript.opening = Opening(contract)
    /\ Transcript.exchanges = exchanges /\ Transcript.termination = ended
    /\ Transcript.next = cut
BY DEF Transcript

LEMMA OpeningFacts ==
    /\ Opening(contract) \in Requests /\ Opening(contract).page = 0
    /\ Opening(contract).id = NoId /\ Opening(contract).kind \in Objects
    /\ First(Opening(contract).kind, Opening(contract).id) = Opening(contract)
<1>1. \A kind \in {"repository", "branch", "gh_protection"} :
        First(kind, NoId) \in Requests /\ First(kind, NoId).page = 0
            /\ First(kind, NoId).id = NoId /\ First(kind, NoId).kind = kind
  BY FirstFacts DEF Kinds, Ids
<1>2. Opening(contract) \in {First(kind, NoId) : kind \in {"repository", "branch", "gh_protection"}}
  BY DEF Opening
<1>3. QED
  BY <1>1, <1>2 DEF Objects

\* Pages that were reached from the first page of their population.
LEMMA Reached ==
    ASSUME Typed, exchanges # <<>>, exchanges[1].request = Opening(contract),
           NEW P, P \subseteq {r \in Requests : r.page = 0},
           \A i \in DOMAIN exchanges \ {1} :
                exchanges[i].request \in P \/ exchanges[i - 1].link = exchanges[i].request,
           NEW i \in DOMAIN exchanges
    PROVE  LET r == exchanges[i].request IN
           /\ First(r.kind, r.id) \in P \cup {Opening(contract)}
           /\ \A n \in 0..r.page : [r EXCEPT !.page = n] \in Requested(exchanges)
<1> DEFINE r(k) == exchanges[k].request
           Good(k) == /\ First(r(k).kind, r(k).id) \in P \cup {Opening(contract)}
                      /\ \A n \in 0..r(k).page : [r(k) EXCEPT !.page = n] \in Requested(exchanges)
           Bad == {k \in DOMAIN exchanges : ~Good(k)}
<1>1. DOMAIN exchanges = 1..Len(exchanges) /\ Len(exchanges) \in Nat
  BY DEF Typed
<1>2. ASSUME NEW k \in DOMAIN exchanges, r(k) \in P \cup {Opening(contract)}
      PROVE  Good(k)
  <2>1. r(k) \in Requests /\ r(k).page = 0
    BY <1>2, OpeningFacts
  <2>2. First(r(k).kind, r(k).id) = r(k)
    BY <2>1 DEF First, Page, Requests
  <2>3. [r(k) EXCEPT !.page = 0] = r(k)
    BY <2>1 DEF Requests
  <2>4. r(k) \in Requested(exchanges)
    BY DEF Requested
  <2>5. \A n \in 0..r(k).page : n = 0
    BY <2>1
  <2>6. QED
    BY <1>2, <2>2, <2>3, <2>4, <2>5
<1>3. ASSUME NEW k \in DOMAIN exchanges, k > 1, Good(k - 1), r(k) \notin P
      PROVE  Good(k)
  <2>1. k - 1 \in DOMAIN exchanges /\ k \in DOMAIN exchanges \ {1}
    BY <1>1, <1>3
  <2>2. exchanges[k - 1].link = r(k)
    BY <1>3, <2>1
  <2>3. r(k - 1) \in Requests /\ r(k) \in Requests
    BY <2>1, ExchangeFacts
  <2>4. r(k) = Following(r(k - 1))
    BY <2>1, <2>2, <2>3, ExchangeFacts, RequestIsSome DEF Shaped
  <2>5. /\ r(k).kind = r(k - 1).kind /\ r(k).id = r(k - 1).id
        /\ r(k).page = r(k - 1).page + 1 /\ r(k - 1).page \in Nat
    BY <2>3, <2>4, FollowingFacts
  <2>6. ASSUME NEW n \in 0..r(k).page PROVE [r(k) EXCEPT !.page = n] \in Requested(exchanges)
    <3>1. CASE n = r(k).page
      <4>1. [r(k) EXCEPT !.page = n] = r(k)
        BY <2>3, <3>1 DEF Requests
      <4>2. QED
        BY <4>1 DEF Requested
    <3>2. CASE n # r(k).page
      <4>1. n \in 0..r(k - 1).page
        BY <2>5, <3>2
      <4>2. [r(k) EXCEPT !.page = n] = [r(k - 1) EXCEPT !.page = n]
        BY <2>3, <2>5 DEF Requests
      <4>3. QED
        BY <1>3, <4>1, <4>2
    <3>3. QED
      BY <3>1, <3>2
  <2>7. QED
    BY <1>3, <2>5, <2>6
<1>4. Bad = {}
  <2> SUFFICES ASSUME Bad # {} PROVE FALSE
    OBVIOUS
  <2>0. Bad \subseteq Nat
    BY <1>1
  <2>1. PICK k \in Bad : \A j \in Bad : k <= j
    <3> HIDE DEF Bad
    <3> QED
      BY <2>0, Smallest
  <2> HIDE DEF Good
  <2>2. k \in DOMAIN exchanges /\ ~Good(k)
    BY <2>1
  <2>3. k # 1
    BY <1>2, <2>2
  <2>4. k > 1 /\ k - 1 \in DOMAIN exchanges /\ ~(k <= k - 1)
    BY <1>1, <2>2, <2>3
  <2>5. Good(k - 1)
    BY <2>1, <2>4
  <2>6. QED
    BY <1>2, <1>3, <2>2, <2>4, <2>5
<1>5. Good(i)
  BY <1>4
<1>6. QED
  BY <1>5

\* What the two plans promise is the same.
LEMMA PlannedPromised ==
    ASSUME Typed, contract \in Histories
    PROVE  /\ Planned(Transcript) = Promised
           /\ Promised \subseteq {r \in Requests : r.page = 0}
           /\ \A p \in Promised : p.id # Elsewhere
<1>1. Planned(Transcript) = Promised
  <2>1. CASE contract \in GithubHistories
    <3>1. Planned(Transcript) = PlannedGithub(Transcript)
      BY <2>1, TranscriptFacts DEF Planned, IsAzure, GithubHistories, AzureHistories
    <3>2. PlannedGithub(Transcript) = Promised
      BY <2>1, TranscriptFacts DEF PlannedGithub, Promised, GithubHistories, Counted
    <3>3. QED
      BY <3>1, <3>2
  <2>2. CASE contract \in AzureHistories
    <3>1. Planned(Transcript) = PlannedAzure(Transcript)
      BY <2>2, TranscriptFacts DEF Planned, IsAzure
    <3>2. PlannedAzure(Transcript) = Promised
      BY <2>2, TranscriptFacts DEF PlannedAzure, Promised, AzureHistories, Firsts
    <3>3. QED
      BY <3>1, <3>2
  <2>3. QED
    BY <2>1, <2>2 DEF Histories
<1>2. ASSUME NEW p \in Promised PROVE p \in Requests /\ p.page = 0 /\ p.id # Elsewhere
  <2>1. \E kind \in Kinds, id \in Ids \ {Elsewhere} : p = First(kind, id)
    <3>1. /\ NoId \in Ids \ {Elsewhere} /\ Heads \subseteq Ids \ {Elsewhere}
          /\ Pulls \subseteq Ids \ {Elsewhere} /\ Revisions \subseteq Ids \ {Elsewhere}
      BY TranscriptAssumption DEF Ids, NoId, Elsewhere
    <3>2. /\ HeadsIn(exchanges) \subseteq Ids \ {Elsewhere}
          /\ PullsIn(exchanges) \subseteq Ids \ {Elsewhere}
          /\ RevisionsIn(exchanges) \subseteq Ids \ {Elsewhere}
      BY <3>1, StageIds
    <3>3. \E kinds \in SUBSET Kinds, ids \in SUBSET (Ids \ {Elsewhere}) : p \in Firsts(kinds, ids)
      BY <3>1, <3>2
      DEF Promised, Histories, GithubHistories, AzureHistories, Kinds, Counted
    <3>4. QED
      BY <3>3 DEF Firsts
  <2>2. QED
    BY <2>1, FirstFacts
<1>3. QED
  BY <1>1, <1>2

\* A transcript in which nothing is out of place, whatever it is called: each
\* exchange after the first is planned or the page its predecessor names.
LEMMA NextIsLink ==
    ASSUME Typed, exchanges # <<>>, exchanges[1].request = Opening(contract),
           NEW next, next = NextPages(Transcript),
           NEW P, P \subseteq {r \in Requests : r.page = 0},
           \A i \in DOMAIN exchanges \ {1} :
                exchanges[i].request \in P \/ next[i - 1] = exchanges[i].request
    PROVE  /\ next = [i \in DOMAIN exchanges |-> exchanges[i].link]
           /\ \A i \in DOMAIN exchanges \ {1} :
                exchanges[i].request \in P \/ exchanges[i - 1].link = exchanges[i].request
<1>1. DOMAIN exchanges = 1..Len(exchanges) /\ Len(exchanges) \in Nat
      /\ exchanges \in Seq(Exchanges)
  BY DEF Typed, Retained
<1>2. next = [i \in DOMAIN exchanges |-> exchanges[i].link]
  <2>1. PICK t : t = Transcript
    OBVIOUS
  <2>2. t.exchanges = exchanges /\ next = NextPages(t)
    BY <2>1, TranscriptFacts
  <2>3. exchanges[1].request.page = 0
    BY OpeningFacts
  <2>4. \A i \in DOMAIN exchanges \ {1} :
            exchanges[i].request.page > 0 =>
                \/ next[i - 1] = exchanges[i].request
                \/ exchanges[i - 1].link = exchanges[i].request
    OBVIOUS
  <2> HIDE <2>1
  <2>5. QED
    BY <1>1, <2>2, <2>3, <2>4, PageIsPlace
<1>3. \A i \in DOMAIN exchanges \ {1} : i - 1 \in DOMAIN exchanges
  BY <1>1
<1>4. QED
  BY <1>2, <1>3

\* Counts that do not fail add up.
LEMMA CountsOf ==
    ASSUME Typed, NEW kind, NEW id, ~CountFails(exchanges, kind, id)
    PROVE  /\ AddsUp(kind, id)
           /\ kind = "check_runs" => ItemsIn(exchanges, Pages(kind, id)) <= SuiteLimit
<1> DEFINE pages == Pages(kind, id)
           reports == {i \in pages : exchanges[i].total # Unreported}
<1>1. /\ reports # {}
      /\ exchanges[Min(reports)].total = ItemsIn(exchanges, pages)
      /\ ~(kind = "check_runs" /\ exchanges[Min(reports)].total > SuiteLimit)
  BY DEF CountFails, Pages
<1>2. reports \subseteq Nat /\ reports \subseteq DOMAIN exchanges
  BY DEF Pages, Typed
<1> HIDE DEF reports
<1>3. PICK j \in reports : \A i \in reports : j <= i
  BY <1>1, <1>2, Smallest
<1>4. Min(reports) \in reports
  BY <1>3 DEF Min
<1> DEFINE m == Min(reports)
<1>5. m \in pages /\ m \in DOMAIN exchanges /\ exchanges[m].total # Unreported
  BY <1>2, <1>4 DEF reports
<1>6. exchanges[m].request.page = 0 /\ exchanges[m].total \in Nat
  BY <1>5, ExchangeFacts DEF Shaped
<1>7. AddsUp(kind, id)
  BY <1>1, <1>5, <1>6 DEF AddsUp
<1>8. kind = "check_runs" => ItemsIn(exchanges, pages) <= SuiteLimit
  BY <1>1, <1>6, TranscriptAssumption
<1>9. QED
  BY <1>7, <1>8

LEMMA CompositeComplete ==
    ASSUME Typed, contract \in Histories, Assess(Transcript) = "Complete",
           NEW next, next = NextPages(Transcript)
    PROVE  /\ exchanges # <<>> /\ exchanges[1].request = Opening(contract)
           /\ ~Incomplete(Transcript, next) /\ ~Unplanned(Transcript, next)
<1>1. /\ ~InvalidComposite(Transcript, next) /\ ended = "Exhausted"
      /\ ~Incomplete(Transcript, next) /\ ~Unplanned(Transcript, next)
  <2>1. AssessComposite(Transcript, next) = "Complete"
    BY TranscriptFacts DEF Assess
  <2>2. ended \in Endings
    BY DEF Typed
  <2>3. ended # "Complete" /\ StatusOf(ended) # "Complete"
    BY <2>2 DEF StatusOf, Endings
  <2>4. QED
    BY <2>1, <2>3, TranscriptFacts DEF AssessComposite
<1>2. QED
  BY <1>1, TranscriptFacts DEF InvalidComposite

LEMMA CompositeClosed ==
    ASSUME Typed, contract \in Histories, Assess(Transcript) = "Complete"
    PROVE  /\ \A i \in DOMAIN exchanges :
                LET x == exchanges[i] IN
                /\ x.status = "ok"
                /\ x.link # NoRequest => Following(x.request) \in Requested(exchanges)
                /\ x.request.page > 0 =>
                    [x.request EXCEPT !.page = @ - 1] \in Requested(exchanges)
                /\ x.request.id # Elsewhere
           /\ Promised \subseteq Requested(exchanges)
           /\ CountsAddUp
<1>1. PICK next : next = NextPages(Transcript)
  OBVIOUS
<1>2. /\ exchanges # <<>> /\ exchanges[1].request = Opening(contract)
      /\ ~Incomplete(Transcript, next) /\ ~Unplanned(Transcript, next)
  BY <1>1, CompositeComplete
<1>3. \A i \in DOMAIN exchanges \ {1} :
        exchanges[i].request \in Promised \/ next[i - 1] = exchanges[i].request
  BY <1>2, TranscriptFacts, PlannedPromised DEF Unplanned
<1>4. /\ next = [i \in DOMAIN exchanges |-> exchanges[i].link]
      /\ \A i \in DOMAIN exchanges \ {1} :
            exchanges[i].request \in Promised \/ exchanges[i - 1].link = exchanges[i].request
  BY <1>1, <1>2, <1>3, NextIsLink, PlannedPromised
<1>5. /\ \A i \in DOMAIN exchanges :
            /\ exchanges[i].status = "ok"
            /\ next[i] # NoRequest => next[i] \in Requested(exchanges)
      /\ \A p \in Promised : p \in Requested(exchanges)
  BY <1>2, TranscriptFacts, PlannedPromised DEF Incomplete
<1>6. ASSUME NEW i \in DOMAIN exchanges
      PROVE  LET x == exchanges[i] IN
             /\ x.link # NoRequest => Following(x.request) \in Requested(exchanges)
             /\ x.request.page > 0 =>
                 [x.request EXCEPT !.page = @ - 1] \in Requested(exchanges)
             /\ x.request.id # Elsewhere
  <2> DEFINE x == exchanges[i]
  <2>1. x.link # NoRequest => Following(x.request) \in Requested(exchanges)
    BY <1>4, <1>5, ExchangeFacts DEF Shaped
  <2>2. /\ First(x.request.kind, x.request.id) \in Promised \cup {Opening(contract)}
        /\ \A n \in 0..x.request.page : [x.request EXCEPT !.page = n] \in Requested(exchanges)
    BY <1>2, <1>4, PlannedPromised, Reached
  <2>3. x.request \in Requests /\ x.request.page \in Nat
    BY ExchangeFacts
  <2>4. x.request.page > 0 => x.request.page - 1 \in 0..x.request.page
    BY <2>3
  <2>5. NoId # Elsewhere /\ First(x.request.kind, x.request.id).id = x.request.id
    BY DEF NoId, Elsewhere, First, Page
  <2>6. x.request.id # Elsewhere
    BY <2>2, <2>5, PlannedPromised, OpeningFacts
  <2>7. QED
    BY <2>1, <2>2, <2>4, <2>6
<1>7. CountsAddUp
  <2>1. CASE contract = "build_validation_history"
    <3>1. \A r \in RevisionsIn(exchanges), kind \in {"check_runs", "status"} :
            ~CountFails(exchanges, kind, r)
      BY <1>2, <2>1, TranscriptFacts DEF Incomplete
    <3>2. ASSUME NEW r \in RevisionsIn(exchanges)
          PROVE  /\ AddsUp("check_runs", r) /\ AddsUp("status", r)
                 /\ ItemsIn(exchanges, Pages("check_runs", r)) <= SuiteLimit
      BY <3>1, CountsOf
    <3>3. QED
      BY <2>1, <3>2 DEF CountsAddUp
  <2>2. CASE contract # "build_validation_history"
    BY <2>2 DEF CountsAddUp, Histories, GithubHistories, AzureHistories
  <2>3. QED
    BY <2>1, <2>2
<1>8. QED
  BY <1>5, <1>6, <1>7

\* What may follow the opening request of a single resource.
LEMMA SuccessorFacts ==
    ASSUME Typed, contract \notin Histories
    PROVE  /\ PlannedSuccessor(Transcript, TRUE) \subseteq {r \in Requests : r.page = 0}
           /\ \A p \in PlannedSuccessor(Transcript, TRUE) : p.id = NoId
           /\ PlannedSuccessor(Transcript, TRUE) # {} => exchanges[1].status = "ok"
           /\ contract \in LookedUp =>
                PlannedSuccessor(Transcript, TRUE) \subseteq Firsts({LookedUpKind(contract)}, {NoId})
           /\ exchanges[1].status = "ok" /\ contract # "branch_protection_gh" =>
                PlannedSuccessor(Transcript, TRUE) = Promised
           /\ exchanges[1].status = "ok" /\ contract \notin LookedUp \cup {"branch_protection_gh"} =>
                PlannedSuccessor(Transcript, FALSE) = Promised
<1> DEFINE Single(kind) == Firsts({kind}, {NoId})
<1>1. PICK f \in BOOLEAN : f = TRUE
  OBVIOUS
<1>2. contract \in LookedUp \cup {"branch_protection", "branch_protection_gh", "branch_policy"}
  BY AcquisitionAssumption DEF Typed, Contracts
<1>3. \A kind : Single(kind) = {First(kind, NoId)}
  BY DEF Firsts
<1>4. \A kind \in Kinds : First(kind, NoId) \in {r \in Requests : r.page = 0 /\ r.id = NoId}
  BY FirstFacts DEF Ids
<1>5. contract \in LookedUp => LookedUpKind(contract) \in Kinds
  BY DEF LookedUp, LookedUpKind, Kinds
<1>6. ASSUME NEW followed \in BOOLEAN
      PROVE  PlannedSuccessor(Transcript, followed) =
                IF exchanges[1].status # "ok" THEN {}
                ELSE CASE contract = "branch_protection" ->
                            IF Protected \in exchanges[1].found
                            THEN Single("protection") ELSE {}
                       [] contract = "branch_policy" -> Single("configurations")
                       [] contract \in LookedUp /\ followed -> Single(LookedUpKind(contract))
                       [] OTHER -> {}
  BY TranscriptFacts DEF PlannedSuccessor
<1>7. contract # "branch_protection_gh" =>
        Promised = CASE contract = "branch_protection" ->
                            IF Protected \in exchanges[1].found
                            THEN Single("protection") ELSE {}
                     [] contract = "branch_policy" -> Single("configurations")
                     [] OTHER -> Single(LookedUpKind(contract))
  BY DEF Promised, Histories, GithubHistories, AzureHistories
<1>8. "branch_protection" \notin LookedUp /\ "branch_policy" \notin LookedUp
      /\ "branch_protection_gh" \notin LookedUp
  BY DEF LookedUp
<1> HIDE DEF Single
<1>9. CASE contract = "branch_protection"
  BY <1>3, <1>4, <1>6, <1>7, <1>8, <1>9 DEF Kinds
<1>10. CASE contract = "branch_policy"
  BY <1>3, <1>4, <1>6, <1>7, <1>8, <1>10 DEF Kinds
<1>11. CASE contract = "branch_protection_gh"
  BY <1>6, <1>8, <1>11
<1>12. CASE contract \in LookedUp
  <2>1. /\ PlannedSuccessor(Transcript, TRUE) =
                IF exchanges[1].status # "ok" THEN {} ELSE Single(LookedUpKind(contract))
        /\ Promised = Single(LookedUpKind(contract))
    <3>1. contract \notin {"branch_protection", "branch_policy", "branch_protection_gh"}
      BY <1>8, <1>12
    <3>2. QED
      BY <1>6, <1>7, <1>12, <3>1
  <2>2. Single(LookedUpKind(contract)) = Firsts({LookedUpKind(contract)}, {NoId})
    BY DEF Single
  <2>3. /\ Single(LookedUpKind(contract)) = {First(LookedUpKind(contract), NoId)}
        /\ First(LookedUpKind(contract), NoId) \in {r \in Requests : r.page = 0 /\ r.id = NoId}
    BY <1>3, <1>4, <1>5, <1>12
  <2>4. QED
    BY <1>12, <2>1, <2>2, <2>3
<1>13. QED
  BY <1>2, <1>9, <1>10, <1>11, <1>12

LEMMA SingleComplete ==
    ASSUME Typed, contract \notin Histories, Assess(Transcript) = "Complete",
           NEW next, next = NextPages(Transcript)
    PROVE  /\ ~InvalidSequence(Transcript, next) /\ ResultCount(Transcript) = "agrees"
           /\ Terminal(Transcript, next)
           /\ Len(exchanges) = 1 => PlannedSuccessor(Transcript, FALSE) = {}
<1>1. AssessSingle(Transcript, next) = "Complete"
  BY TranscriptFacts DEF Assess
<1>2. ended \in Endings
  BY DEF Typed
<1>3. ended # "Complete" /\ StatusOf(ended) # "Complete"
  BY <1>2 DEF StatusOf, Endings
<1>4. ResultCount(Transcript) \in {"agrees", "Failed", "Truncated"}
  BY DEF ResultCount
<1>5. ~InvalidSequence(Transcript, next) /\ ended = "Exhausted"
  BY <1>1, <1>3, TranscriptFacts DEF AssessSingle
<1>6. ResultCount(Transcript) = "agrees"
  BY <1>1, <1>4, <1>5, TranscriptFacts DEF AssessSingle
<1>7. QED
  BY <1>1, <1>5, <1>6, TranscriptFacts DEF AssessSingle

LEMMA SingleClosed ==
    ASSUME Typed, contract \notin Histories, Assess(Transcript) = "Complete"
    PROVE  /\ \A i \in DOMAIN exchanges :
                LET x == exchanges[i] IN
                /\ x.status = "ok"
                /\ x.link # NoRequest => Following(x.request) \in Requested(exchanges)
                /\ x.request.page > 0 =>
                    [x.request EXCEPT !.page = @ - 1] \in Requested(exchanges)
                /\ x.request.id # Elsewhere
           /\ Promised \subseteq Requested(exchanges)
           /\ CountsAddUp
<1> DEFINE n == Len(exchanges)
           P == PlannedSuccessor(Transcript, TRUE)
           After == AfterLookup(Transcript)
<1>0. n \in Nat /\ DOMAIN exchanges = 1..n
  BY DEF Typed
<1>1. PICK next : next = NextPages(Transcript)
  OBVIOUS
<1>2. /\ ~InvalidSequence(Transcript, next) /\ ResultCount(Transcript) = "agrees"
      /\ Terminal(Transcript, next)
      /\ n = 1 => PlannedSuccessor(Transcript, FALSE) = {}
  BY <1>1, SingleComplete
<1>3. /\ After = IF contract \in LookedUp THEN {i \in DOMAIN exchanges : i > 1}
                  ELSE DOMAIN exchanges
      /\ After # {} /\ exchanges[n].status = "ok" /\ next[Len(next)] = NoRequest
  BY <1>2, TranscriptFacts DEF Terminal, AfterLookup
<1>4. /\ exchanges # <<>> /\ n >= 1 /\ (contract \in LookedUp => n >= 2)
      /\ 1 \in DOMAIN exchanges
  BY <1>0, <1>3
<1>5. exchanges[1].request = Opening(contract)
  BY <1>2, <1>4, TranscriptFacts DEF InvalidSequence
<1>6. /\ \A i \in DOMAIN exchanges \ {1} :
            IF i = 2 /\ P # {} THEN exchanges[i].request \in P
            ELSE next[i - 1] = exchanges[i].request
      /\ contract \in LookedUp => \A i \in DOMAIN exchanges \ {1} :
            exchanges[i].request.kind = LookedUpKind(contract)
  BY <1>2, TranscriptFacts DEF InvalidSequence
<1> HIDE DEF P
<1>7. P \subseteq {r \in Requests : r.page = 0}
  BY SuccessorFacts DEF P
<1>8. /\ next = [i \in DOMAIN exchanges |-> exchanges[i].link]
      /\ \A i \in DOMAIN exchanges \ {1} :
            exchanges[i].request \in P \/ exchanges[i - 1].link = exchanges[i].request
  BY <1>1, <1>4, <1>5, <1>6, <1>7, NextIsLink
<1>9. Len(next) = n /\ exchanges[n].link = NoRequest
  <2>1. next = [i \in 1..n |-> exchanges[i].link]
    BY <1>0, <1>8
  <2>2. Len(next) = n
    BY <1>0, <2>1
  <2>3. QED
    BY <1>0, <1>3, <1>4, <2>1, <2>2
<1>10. exchanges[1].link = NoRequest
  <2>1. exchanges[1].request.kind \in Objects
    BY <1>5, OpeningFacts
  <2>2. QED
    BY <1>4, <2>1, ExchangeFacts DEF Shaped
<1>11. ASSUME NEW i \in DOMAIN exchanges, i # n
       PROVE  IF i = 1 /\ P # {} THEN exchanges[2].request \in P
              ELSE exchanges[i].link = exchanges[i + 1].request
  <2>1. i + 1 \in DOMAIN exchanges \ {1} /\ (i + 1) - 1 = i /\ (i + 1 = 2 <=> i = 1)
    BY <1>0, <1>11
  <2>2. next[i] = exchanges[i].link
    BY <1>8
  <2>3. QED
    BY <1>6, <2>1, <2>2
<1>12. ASSUME NEW i \in DOMAIN exchanges
       PROVE  exchanges[i].status = "ok"
  <2>1. CASE i = n
    BY <1>3, <2>1
  <2>2. CASE i # n /\ i = 1 /\ P # {}
    BY <2>2, SuccessorFacts DEF P
  <2>3. CASE i # n /\ ~(i = 1 /\ P # {})
    <3>1. i + 1 \in DOMAIN exchanges
      BY <1>0, <2>3
    <3>2. exchanges[i].link # NoRequest
      BY <1>11, <2>3, <3>1, ExchangeFacts, RequestIsSome
    <3>3. QED
      BY <3>2, ExchangeFacts DEF Shaped
  <2>4. QED
    BY <2>1, <2>2, <2>3
<1>13. ASSUME NEW i \in DOMAIN exchanges, exchanges[i].link # NoRequest
       PROVE  Following(exchanges[i].request) \in Requested(exchanges)
  <2>1. i # n /\ i # 1
    BY <1>9, <1>10, <1>13
  <2>2. i + 1 \in DOMAIN exchanges
    BY <1>0, <2>1
  <2>3. exchanges[i].link = exchanges[i + 1].request
    BY <1>11, <2>1
  <2>4. exchanges[i].link = Following(exchanges[i].request)
    BY <1>13, ExchangeFacts DEF Shaped
  <2>5. QED
    BY <2>2, <2>3, <2>4 DEF Requested
<1>14. ASSUME NEW i \in DOMAIN exchanges
       PROVE  LET x == exchanges[i] IN
              /\ First(x.request.kind, x.request.id) \in P \cup {Opening(contract)}
              /\ x.request.page > 0 =>
                    [x.request EXCEPT !.page = @ - 1] \in Requested(exchanges)
              /\ x.request.id = NoId
  <2> DEFINE x == exchanges[i]
  <2>1. /\ First(x.request.kind, x.request.id) \in P \cup {Opening(contract)}
        /\ \A k \in 0..x.request.page : [x.request EXCEPT !.page = k] \in Requested(exchanges)
    BY <1>4, <1>5, <1>7, <1>8, Reached
  <2>2. x.request.page \in Nat
    BY ExchangeFacts
  <2>3. x.request.page > 0 => x.request.page - 1 \in 0..x.request.page
    BY <2>2
  <2>4. First(x.request.kind, x.request.id).id = x.request.id
    BY DEF First, Page
  <2>5. x.request.id = NoId
    BY <2>1, <2>4, SuccessorFacts, OpeningFacts DEF P
  <2>6. QED
    BY <2>1, <2>3, <2>5
<1>15. exchanges[1].status = "ok"
  BY <1>4, <1>12
<1>16. Promised \subseteq Requested(exchanges)
  <2>1. CASE contract = "branch_protection_gh"
    <3>1. Promised = {Opening(contract)}
      BY <2>1 DEF Promised, Histories, GithubHistories, AzureHistories
    <3>2. QED
      BY <1>4, <1>5, <3>1 DEF Requested
  <2>2. CASE contract # "branch_protection_gh"
    <3>1. P = Promised
      BY <1>15, <2>2, SuccessorFacts DEF P
    <3>2. n = 1 => Promised = {}
      <4>1. n = 1 => contract \notin LookedUp \cup {"branch_protection_gh"}
        BY <1>4, <2>2
      <4>2. n = 1 => PlannedSuccessor(Transcript, FALSE) = Promised
        BY <1>15, <4>1, SuccessorFacts
      <4>3. QED
        BY <1>2, <4>2
    <3>3. CASE n = 1
      BY <3>2, <3>3
    <3>4. CASE n # 1
      <4>1. 2 \in DOMAIN exchanges \ {1}
        BY <1>0, <1>4, <3>4
      <4>2. P # {} => exchanges[2].request \in P
        BY <1>6, <4>1
      <4>3. \A p, q \in Promised : p = q
        <5>1. contract \in LookedUp \cup {"branch_protection", "branch_policy"}
          BY <2>2, AcquisitionAssumption DEF Typed, Contracts
        <5>2. \E kind : Promised \subseteq {First(kind, NoId)}
          BY <5>1 DEF Promised, Histories, GithubHistories, AzureHistories, LookedUp, Firsts
        <5>3. QED
          BY <5>2
      <4>4. QED
        BY <3>1, <4>1, <4>2, <4>3 DEF Requested
    <3>5. QED
      BY <3>3, <3>4
  <2>3. QED
    BY <2>1, <2>2
<1>17. CountsAddUp
  <2>1. CASE contract \in {"check_runs", "commit_statuses"}
    <3> DEFINE kind == LookedUpKind(contract)
    <3>1. contract \in LookedUp
      BY <2>1 DEF LookedUp
    <3>2. /\ exchanges[2].total # Unreported
          /\ exchanges[2].total = ItemsIn(exchanges, After)
      BY <1>2, <2>1, TranscriptFacts DEF ResultCount
    <3>3. After = {i \in DOMAIN exchanges : i > 1}
      BY <1>3, <3>1
    <3>4. kind # "repository" /\ exchanges[1].request.kind = "repository"
      BY <1>5, <2>1 DEF LookedUpKind, Opening, First, Page
    <3>5. Pages(kind, NoId) = After
      <4>1. \A i \in DOMAIN exchanges : exchanges[i].request.id = NoId
        BY <1>14
      <4>2. \A i \in DOMAIN exchanges : exchanges[i].request.kind = kind <=> i > 1
        <5>1. \A i \in DOMAIN exchanges \ {1} : exchanges[i].request.kind = kind
          BY <1>6, <3>1
        <5>2. \A i \in DOMAIN exchanges : i > 1 <=> i # 1
          BY <1>0
        <5> HIDE DEF kind
        <5>3. QED
          BY <3>4, <5>1, <5>2
      <4>3. QED
        BY <3>3, <4>1, <4>2 DEF Pages
    <3>6. 2 \in Pages(kind, NoId) /\ 2 \in DOMAIN exchanges
      BY <1>0, <1>4, <3>1, <3>3, <3>5
    <3>7. exchanges[2].request.page = 0
      BY <3>2, <3>6, ExchangeFacts DEF Shaped
    <3>8. AddsUp(kind, NoId)
      BY <3>2, <3>5, <3>6, <3>7 DEF AddsUp
    <3>9. QED
      BY <2>1, <3>8 DEF CountsAddUp, LookedUpKind
  <2>2. CASE contract \notin {"check_runs", "commit_statuses"}
    BY <2>2 DEF CountsAddUp, Histories, GithubHistories
  <2>3. QED
    BY <2>1, <2>2
<1>18. QED
  BY <1>12, <1>13, <1>14, <1>16, <1>17 DEF NoId, Elsewhere

\* A transcript that replays as complete is closed, whoever made it: every
\* promised population and every page that is named is in it, and what is counted
\* adds up.  (assess_enumeration, incomplete_composite_population)
THEOREM CompleteClosed == Spec => []CompleteIsClosed
<1>1. IInv => CompleteIsClosed
  BY CompositeClosed, SingleClosed DEF IInv, CompleteIsClosed
<1>2. QED
  BY <1>1, Invariant, PTL

\* The plan of a history is its three stages.
LEMMA PromisedStages ==
    ASSUME contract \in Histories
    PROVE  Promised = Populations(1) \cup Populations(2) \cup Populations(3)
<1>1. \A kind, id : First(kind, id) \in Firsts({kind}, {id})
  BY DEF Firsts
<1>2. Promised = StageOne \cup StageTwo \cup StageThree
  <2>1. CASE contract = "repository_mutations"
    BY <2>1 DEF Promised, StageOne, StageTwo, StageThree, GithubHistories, AzureHistories, Firsts
  <2>2. CASE contract = "pull_request_reviews"
    BY <2>2 DEF Promised, StageOne, StageTwo, StageThree, GithubHistories, AzureHistories, Firsts
  <2>3. CASE contract = "build_validation_history"
    BY <2>3 DEF Promised, StageOne, StageTwo, StageThree, GithubHistories, AzureHistories, Firsts, Counted
  <2>4. CASE contract = "azure_mutations"
    BY <2>4 DEF Promised, StageOne, StageTwo, StageThree, GithubHistories, AzureHistories, Firsts
  <2>5. CASE contract = "azure_reviews"
    BY <2>5 DEF Promised, StageOne, StageTwo, StageThree, GithubHistories, AzureHistories, Firsts
  <2>6. CASE contract = "azure_validations"
    BY <2>6 DEF Promised, StageOne, StageTwo, StageThree, GithubHistories, AzureHistories, Firsts
  <2>7. QED
    BY <2>1, <2>2, <2>3, <2>4, <2>5, <2>6 DEF Histories, GithubHistories, AzureHistories
<1>3. QED
  BY <1>2, PopulationsAre

LEMMA PromisedRanks ==
    ASSUME Typed, contract \in Histories, NEW p \in Promised
    PROVE  /\ Rank(p.kind) \in 1..3 /\ p \in Populations(Rank(p.kind))
           /\ p # Opening(contract)
<1>1. PICK k \in 1..3 : p \in Populations(k)
  BY PromisedStages
<1>2. Rank(p.kind) = k
  BY <1>1, PopulationRanks
<1>3. Rank(Opening(contract).kind) = 0
  BY PopulationsAre, PopulationRanks
<1>4. QED
  BY <1>1, <1>2, <1>3

LEMMA CompositeTruncated ==
    ASSUME Typed, contract \in Histories, Assess(Transcript) = "Truncated",
           NEW next, next = NextPages(Transcript)
    PROVE  /\ ~InvalidComposite(Transcript, next) /\ ended = "Truncated"
           /\ TruncatedAt(Transcript, next) /\ ~Unplanned(Transcript, next)
<1>1. AssessComposite(Transcript, next) = "Truncated"
  BY TranscriptFacts DEF Assess
<1>2. ended \in Endings
  BY DEF Typed
<1>3. StatusOf(ended) = "Truncated" => ended = "Truncated"
  BY <1>2 DEF StatusOf, Endings
<1>4. ~InvalidComposite(Transcript, next) /\ ended = "Truncated"
  BY <1>1, <1>3, TranscriptFacts DEF AssessComposite
<1>5. QED
  BY <1>1, <1>4, TranscriptFacts DEF AssessComposite

LEMMA TruncatedHolds == Typed => TruncatedIsPrefix
<1> SUFFICES ASSUME Typed, contract \in Histories, Assess(Transcript) = "Truncated"
             PROVE  /\ \A i \in DOMAIN exchanges :
                        LET r == exchanges[i].request IN
                        /\ First(r.kind, r.id) \in Promised \cup {Opening(contract)}
                        /\ \A n \in 0..r.page : [r EXCEPT !.page = n] \in Requested(exchanges)
                        /\ exchanges[i].link # NoRequest /\ i < Len(exchanges)
                            => exchanges[i].link = exchanges[i + 1].request
                        /\ \A p \in Promised : Before(p, r) => p \in Requested(exchanges)
                    /\ exchanges[Len(exchanges)].link # NoRequest
  BY DEF TruncatedIsPrefix
<1> DEFINE n == Len(exchanges)
<1>0. n \in Nat /\ DOMAIN exchanges = 1..n
  BY DEF Typed
<1>1. PICK next : next = NextPages(Transcript)
  OBVIOUS
<1>2. /\ ~InvalidComposite(Transcript, next) /\ ended = "Truncated"
      /\ TruncatedAt(Transcript, next) /\ ~Unplanned(Transcript, next)
  BY <1>1, CompositeTruncated
<1>3. /\ exchanges # <<>> /\ exchanges[1].request = Opening(contract)
      /\ \A i \in DOMAIN exchanges \ {1} :
            next[i - 1] = NoRequest \/ next[i - 1] = exchanges[i].request
  BY <1>2, TranscriptFacts DEF InvalidComposite
<1>4. /\ \A i \in DOMAIN exchanges \ {1} :
            exchanges[i].request \in Promised \/ next[i - 1] = exchanges[i].request
      /\ \A p \in Promised, q \in Promised \cap Requested(exchanges) :
            Before(p, q) => p \in Requested(exchanges)
  BY <1>2, TranscriptFacts, PlannedPromised DEF Unplanned
<1>5. /\ next = [i \in DOMAIN exchanges |-> exchanges[i].link]
      /\ \A i \in DOMAIN exchanges \ {1} :
            exchanges[i].request \in Promised \/ exchanges[i - 1].link = exchanges[i].request
  BY <1>1, <1>3, <1>4, NextIsLink, PlannedPromised
<1>6. ASSUME NEW i \in DOMAIN exchanges
      PROVE  LET r == exchanges[i].request IN
             /\ First(r.kind, r.id) \in Promised \cup {Opening(contract)}
             /\ \A k \in 0..r.page : [r EXCEPT !.page = k] \in Requested(exchanges)
  BY <1>3, <1>5, PlannedPromised, Reached
<1>7. ASSUME NEW i \in DOMAIN exchanges, exchanges[i].link # NoRequest, i < n
      PROVE  exchanges[i].link = exchanges[i + 1].request
  <2>1. i + 1 \in DOMAIN exchanges \ {1} /\ (i + 1) - 1 = i
    BY <1>0, <1>7
  <2>2. next[i] = exchanges[i].link
    BY <1>5
  <2>3. QED
    BY <1>3, <1>7, <2>1, <2>2
<1>8. ASSUME NEW i \in DOMAIN exchanges, NEW p \in Promised, Before(p, exchanges[i].request)
      PROVE  p \in Requested(exchanges)
  <2> DEFINE r == exchanges[i].request
             q == First(r.kind, r.id)
  <2>1. r \in Requests /\ r.page \in Nat
    BY ExchangeFacts
  <2>2. q.kind = r.kind /\ q.id = r.id /\ q = [r EXCEPT !.page = 0] /\ q \in Requests
    BY <2>1 DEF First, Page, Requests
  <2>3. q \in Requested(exchanges) /\ q \in Promised \cup {Opening(contract)}
    BY <1>6, <2>1, <2>2
  <2>4. Before(p, q)
    BY <1>8, <2>2 DEF Before
  <2>5. CASE q \in Promised
    BY <1>4, <2>3, <2>4, <2>5
  <2>6. CASE q = Opening(contract)
    <3>1. Rank(q.kind) = 0
      BY <2>6, PopulationsAre, PopulationRanks
    <3>2. Rank(p.kind) \in 1..3 /\ p \in Requests
      BY PromisedRanks, PlannedPromised
    <3> HIDE DEF q
    <3>3. Rank(p.kind) <= Rank(q.kind)
      BY <2>2, <2>4, <3>2, BeforeFacts
    <3>4. QED
      BY <3>1, <3>2, <3>3
  <2>7. QED
    BY <2>3, <2>5, <2>6
<1>9. exchanges[n].link # NoRequest
  <2>1. next[Len(next)] = cut
    BY <1>2, TranscriptFacts DEF TruncatedAt
  <2>2. next = [i \in 1..n |-> exchanges[i].link]
    BY <1>0, <1>5
  <2>3. Len(next) = n /\ n \in 1..n
    BY <1>0, <1>3, <2>2
  <2>4. cut # NoRequest
    BY <1>2 DEF Typed
  <2>5. QED
    BY <2>1, <2>2, <2>3, <2>4
<1>10. QED
  BY <1>6, <1>7, <1>8, <1>9

\* A truncated history that keeps its authority, whoever made it, begins with
\* what a collector reads first, without gaps.  (unplanned_composite_population)
THEOREM TruncatedPrefix == Spec => []TruncatedIsPrefix
<1>1. IInv => TruncatedIsPrefix
  BY TruncatedHolds DEF IInv
<1>2. QED
  BY <1>1, Invariant, PTL

-----------------------------------------------------------------------------
(***************************************************************************)
(* The collector's own transcripts.                                        *)
(***************************************************************************)
\* A population whose next pages are not read names none, save threads.
LEMMA SettledFacts ==
    ASSUME Typed, ~UnreadThreads, NEW i \in DOMAIN exchanges, Settled(exchanges[i])
    PROVE  exchanges[i].link = NoRequest
BY ExchangeFacts DEF Settled, FollowsPages, Shaped, UnreadThreads

\* The pages that the replay computes are those that the responses link.
LEMMA CollectedPages ==
    ASSUME Typed, Collecting, NEW next, next = NextPages(Transcript)
    PROVE  /\ next = [i \in DOMAIN exchanges |-> exchanges[i].link]
           /\ \A i \in DOMAIN exchanges \ {1} :
                /\ i - 1 \in DOMAIN exchanges
                /\ exchanges[i].request.page > 0 =>
                    /\ exchanges[i - 1].link = exchanges[i].request
                    /\ FollowsPages(exchanges[i].request.kind)
                /\ exchanges[i].request.page = 0 => Settled(exchanges[i - 1])
<1>1. DOMAIN exchanges = 1..Len(exchanges) /\ Len(exchanges) \in Nat
      /\ exchanges \in Seq(Exchanges)
  BY DEF Typed, Retained
<1>2. exchanges # <<>> => exchanges[1].request.page = 0
  BY OpeningFacts DEF Collecting, Walk
<1>3. \A i \in DOMAIN exchanges \ {1} :
        /\ exchanges[i].request.page > 0 =>
            /\ exchanges[i - 1].link = exchanges[i].request
            /\ FollowsPages(exchanges[i].request.kind)
        /\ exchanges[i].request.page = 0 => Settled(exchanges[i - 1])
  BY ExchangeFacts DEF Collecting, Walk, Follows
<1>4. next = [i \in DOMAIN exchanges |-> exchanges[i].link]
  <2>1. PICK t : t = Transcript
    OBVIOUS
  <2>2. t.exchanges = exchanges /\ next = NextPages(t)
    BY <2>1, TranscriptFacts
  <2> HIDE <2>1
  <2>3. QED
    BY <1>1, <1>2, <1>3, <2>2, PageIsPlace
<1>5. \A i \in DOMAIN exchanges \ {1} : i - 1 \in DOMAIN exchanges
  BY <1>1
<1>6. QED
  BY <1>3, <1>4, <1>5

\* Where the requests of the collector come from.
LEMMA CollectedRequests ==
    ASSUME Typed, Collecting, NEW i \in DOMAIN exchanges \ {1}
    PROVE  LET r == exchanges[i].request IN
           /\ First(r.kind, r.id) \in Requested(exchanges)
           /\ \E k \in 1..3 : k <= stage /\ First(r.kind, r.id) \in Populations(k)
           /\ r.page = 0 => First(r.kind, r.id) = r
           /\ i = 2 => r.page = 0
           /\ 1 \in DOMAIN exchanges /\ exchanges[1].request = Opening(contract)
           /\ exchanges[1].link = NoRequest /\ exchanges[1].status = "ok"
<1> DEFINE r == exchanges[i].request
           f == First(r.kind, r.id)
<1>0. /\ DOMAIN exchanges = 1..Len(exchanges) /\ Len(exchanges) \in Nat /\ stage \in 0..3
      /\ r \in Requests /\ r.page \in Nat
  BY ExchangeFacts DEF Typed
<1>1. 1 \in DOMAIN exchanges /\ exchanges[1].request = Opening(contract) /\ i > 1
  BY <1>0 DEF Collecting, Walk
<1>2. exchanges[1].link = NoRequest
  <2>1. exchanges[1].request.kind \in Objects
    BY <1>1, OpeningFacts
  <2>2. QED
    BY <1>1, <2>1, ExchangeFacts DEF Shaped
<1>3. exchanges[1].status = "ok"
  BY <1>0, <1>1 DEF Collecting, Healthy
<1>4. r.page > 0 =>
        /\ i - 1 \in DOMAIN exchanges /\ exchanges[i - 1].link = r
        /\ FollowsPages(r.kind)
  BY CollectedPages
<1>5. i = 2 => r.page = 0
  BY <1>0, <1>2, <1>4, RequestIsSome
<1>6. r \in Requested(exchanges)
  BY DEF Requested
<1>7. f \in Requested(exchanges) /\ f.page = 0 /\ f.kind = r.kind
  BY <1>6 DEF Collecting, Staged, First, Page
<1>8. PICK k \in 0..stage : f \in Populations(k)
  BY <1>7 DEF Collecting, Staged, Asked
<1>9. r.page = 0 => f = r
  BY <1>0 DEF First, Page, Requests
<1>10. k # 0
  <2> SUFFICES ASSUME k = 0 PROVE FALSE
    OBVIOUS
  <2>1. f = Opening(contract)
    BY <1>8, PopulationsAre
  <2>2. CASE r.page = 0
    <3>1. exchanges[1].request = exchanges[i].request /\ exchanges[1].request.page = 0
      BY <1>1, <1>9, <2>1, <2>2
    <3>2. 1 = i
      BY <1>1, <3>1 DEF Collecting, Once
    <3>3. QED
      BY <1>1, <3>2
  <2>3. CASE r.page > 0
    BY <1>4, <1>7, <2>1, <2>3, OpeningFacts DEF FollowsPages
  <2>4. QED
    BY <1>0, <2>2, <2>3
<1>11. k \in 1..3 /\ k <= stage
  BY <1>0, <1>10
<1>12. QED
  BY <1>1, <1>2, <1>3, <1>5, <1>7, <1>8, <1>9, <1>11

\* The plan that the replay makes of a history and the collector's are one.
LEMMA CollectedPlan ==
    ASSUME Typed, Collecting, contract \in Histories, ended \in {"Exhausted", "Truncated"},
           NEW next, next = NextPages(Transcript), Len(exchanges) > 1
    PROVE  Plannable(Transcript) /\ ~Unplanned(Transcript, next)
<1>0. /\ DOMAIN exchanges = 1..Len(exchanges) /\ Len(exchanges) \in Nat /\ stage \in 0..3
      /\ Going /\ request = NoRequest /\ 2 \in DOMAIN exchanges \ {1}
  BY DEF Typed, Going, Collecting
<1>1. \A i \in DOMAIN exchanges : exchanges[i].status = "ok"
  BY <1>0 DEF Collecting, Healthy
<1>2. Plannable(Transcript)
  BY <1>0, <1>1, TranscriptFacts DEF Plannable, Refused
<1>3. ASSUME NEW i \in DOMAIN exchanges \ {1}, exchanges[i].request.page = 0
      PROVE  exchanges[i].request \in Promised
  BY <1>3, CollectedRequests, PromisedStages
<1>4. ASSUME NEW i \in DOMAIN exchanges \ {1}
      PROVE  exchanges[i].request \in Promised \/ next[i - 1] = exchanges[i].request
  <2>1. CASE exchanges[i].request.page = 0
    BY <1>3, <2>1
  <2>2. CASE exchanges[i].request.page > 0
    BY <2>2, CollectedPages
  <2>3. QED
    BY <2>1, <2>2, ExchangeFacts
<1>5. Promised \cap Requested(exchanges) # {}
  <2>1. exchanges[2].request \in Promised
    BY <1>0, <1>3, CollectedRequests
  <2>2. QED
    BY <1>0, <2>1 DEF Requested
<1>6. ASSUME NEW p \in Promised \ Requested(exchanges),
             NEW q \in Promised \cap Requested(exchanges), Before(p, q)
      PROVE  FALSE
  <2>1. /\ p \in Requests /\ q \in Requests /\ q.page = 0
        /\ Rank(p.kind) \in 1..3 /\ p \in Populations(Rank(p.kind))
        /\ Rank(q.kind) \in 1..3
    BY PlannedPromised, PromisedRanks
  <2>2. q \in Asked
    BY <2>1 DEF Asked
  <2>3. PICK k \in 0..stage : q \in Populations(k)
    BY <2>2 DEF Collecting, Staged
  <2>4. Rank(q.kind) = k
    BY <1>0, <2>3, PopulationRanks
  <2>5. Rank(p.kind) <= Rank(q.kind)
    BY <1>6, <2>1, BeforeFacts
  <2>6. Rank(p.kind) = stage
    <3>1. ~(Rank(p.kind) < stage)
      BY <1>0, <2>1 DEF Collecting, Covered
    <3>2. QED
      BY <1>0, <2>1, <2>3, <2>4, <2>5, <3>1
  <2>7. p \in Asked \cup todo
    BY <1>0, <2>1, <2>6 DEF Collecting, Covered
  <2>8. p \in todo
    BY <1>0, <2>7 DEF Asked
  <2>9. QED
    BY <1>6, <2>2, <2>8 DEF Collecting, Ordered
<1>7. Planned(Transcript) = Promised
  BY PlannedPromised
<1>8. ~Unplanned(Transcript, next)
  BY <1>2, <1>4, <1>5, <1>6, <1>7, TranscriptFacts DEF Unplanned
<1>9. QED
  BY <1>2, <1>8

\* Nothing of what was collected is out of place for the replay.
LEMMA CollectedValid ==
    ASSUME Typed, Collecting, contract \in Histories, Sealed, ~UnreadThreads,
           NEW next, next = NextPages(Transcript)
    PROVE  ~InvalidComposite(Transcript, next)
<1>1. exchanges # <<>>
  BY DEF Collecting, Walk, ThroughGh, Histories, GithubHistories, AzureHistories
<1>2. exchanges[1].request = Opening(contract)
  BY <1>1 DEF Collecting, Walk
<1>3. ASSUME NEW i \in DOMAIN exchanges
      PROVE  Allowed(Transcript, exchanges[i].request)
  <2>1. CASE i = 1
    BY <1>2, <2>1, TranscriptFacts DEF Allowed
  <2>2. CASE i # 1
    <3> DEFINE r == exchanges[i].request
    <3>1. /\ \E k \in 1..3 : First(r.kind, r.id) \in Populations(k)
          /\ exchanges[1].status = "ok"
      BY <2>2, CollectedRequests
    <3>2. First(r.kind, r.id) \in Promised /\ First(r.kind, r.id).kind = r.kind
      BY <3>1, PromisedStages DEF First, Page
    <3>3. CASE contract \in GithubHistories
      <4>1. \/ r.kind \in {"activity", "pulls"}
            \/ r.kind \in {"check_runs", "status"} /\ contract = "build_validation_history"
            \/ r.kind = "reviews" /\ contract = "pull_request_reviews"
        BY <3>2, <3>3 DEF Promised, Firsts, First, Page, GithubHistories, Counted
      <4>2. ~IsAzure(contract)
        BY <3>3 DEF IsAzure, GithubHistories, AzureHistories
      <4>3. QED
        BY <4>1, <4>2, TranscriptFacts DEF Allowed
    <3>4. CASE contract \in AzureHistories
      <4>1. \/ r.kind = "pushes" /\ contract = "azure_mutations"
            \/ r.kind = "pullrequests"
            \/ r.kind = "threads" /\ contract = "azure_reviews"
            \/ r.kind = "evaluations" /\ contract = "azure_validations"
        BY <3>2, <3>4 DEF Promised, Firsts, First, Page, AzureHistories
      <4>2. IsAzure(contract)
        BY <3>4 DEF IsAzure
      <4>3. QED
        BY <3>1, <4>1, <4>2, TranscriptFacts DEF Allowed
    <3>5. QED
      BY <3>3, <3>4 DEF Histories
  <2>3. QED
    BY <2>1, <2>2
<1>4. ASSUME NEW i \in DOMAIN exchanges \ {1}
      PROVE  next[i - 1] = NoRequest \/ next[i - 1] = exchanges[i].request
  <2>1. /\ i - 1 \in DOMAIN exchanges /\ next[i - 1] = exchanges[i - 1].link
        /\ exchanges[i].request.page > 0 => exchanges[i - 1].link = exchanges[i].request
        /\ exchanges[i].request.page = 0 => Settled(exchanges[i - 1])
    BY CollectedPages
  <2>2. exchanges[i].request.page = 0 \/ exchanges[i].request.page > 0
    BY ExchangeFacts
  <2>3. QED
    BY <2>1, <2>2, SettledFacts
<1>5. QED
  BY <1>1, <1>2, <1>3, <1>4, TranscriptFacts DEF InvalidComposite, Requested

\* Counts that add up do not fail: what is reported is reported on the one first
\* page.
LEMMA CountsHold ==
    ASSUME Typed, Collecting, NEW kind, NEW id, AddsUp(kind, id),
           kind = "check_runs" => ItemsIn(exchanges, Pages(kind, id)) <= SuiteLimit
    PROVE  ~CountFails(exchanges, kind, id)
<1> DEFINE pages == Pages(kind, id)
           reports == {i \in pages : exchanges[i].total # Unreported}
<1>1. PICK i \in pages :
        /\ exchanges[i].request.page = 0 /\ exchanges[i].total # Unreported
        /\ exchanges[i].total = ItemsIn(exchanges, pages)
  BY DEF AddsUp
<1>2. ASSUME NEW j \in reports PROVE j = i
  <2>1. /\ j \in DOMAIN exchanges /\ i \in DOMAIN exchanges
        /\ exchanges[j].request.kind = kind /\ exchanges[j].request.id = id
        /\ exchanges[i].request.kind = kind /\ exchanges[i].request.id = id
        /\ exchanges[j].total # Unreported
    BY <1>1 DEF Pages
  <2>2. exchanges[j].request.page = 0 /\ exchanges[j].request \in Requests
        /\ exchanges[i].request \in Requests
    BY <2>1, ExchangeFacts DEF Shaped
  <2>3. exchanges[j].request = exchanges[i].request
    BY <1>1, <2>1, <2>2 DEF Requests
  <2>4. QED
    BY <2>1, <2>2, <2>3 DEF Collecting, Once
<1>3. reports = {i} /\ i \in Nat
  <2>1. i \in reports
    BY <1>1
  <2>2. i \in Nat
    BY <1>1 DEF Pages, Typed
  <2> HIDE DEF reports
  <2>3. QED
    BY <1>2, <2>1, <2>2
<1>4. exchanges[i].total \in Nat
  BY <1>1, ExchangeFacts DEF Pages
<1> HIDE DEF reports
<1>5. Min(reports) = i
  BY <1>3 DEF Min
<1>6. kind = "check_runs" => ~(exchanges[i].total > SuiteLimit)
  BY <1>1, <1>4, TranscriptAssumption
<1>7. QED
  BY <1>1, <1>3, <1>5, <1>6 DEF CountFails, Pages, reports

LEMMA HistoryExhausted ==
    ASSUME Typed, Collecting, contract \in Histories, ended = "Exhausted", ~UnreadThreads,
           CountsAddUp
    PROVE  Assess(Transcript) = "Complete"
<1>0. /\ DOMAIN exchanges = 1..Len(exchanges) /\ Len(exchanges) \in Nat /\ Sealed
      /\ Going /\ request = NoRequest /\ stage = 3 /\ todo = {}
  BY DEF Typed, Going, Sealed, Collecting, Covered
<1>1. PICK next : next = NextPages(Transcript)
  OBVIOUS
<1>2. \A k \in 0..3 : Populations(k) \subseteq Requested(exchanges)
  <2>1. Populations(3) \subseteq Requested(exchanges)
    BY <1>0 DEF Collecting, Covered, Asked
  <2>2. \A k \in 0..3 : k < 3 \/ k = 3
    OBVIOUS
  <2>3. QED
    BY <1>0, <2>1, <2>2 DEF Collecting, Covered
<1>3. Promised \subseteq Requested(exchanges)
  BY <1>2, PromisedStages
<1>4. Len(exchanges) > 1
  <2>1. PICK p : p \in Promised
    BY DEF Promised, Histories, GithubHistories, AzureHistories, Firsts
  <2>2. p # Opening(contract) /\ p \in Requested(exchanges)
    BY <1>3, <2>1, PromisedRanks
  <2>3. PICK i \in DOMAIN exchanges : exchanges[i].request = p
    BY <2>2 DEF Requested
  <2>4. i # 1
    BY <2>2, <2>3 DEF Collecting, Walk
  <2>5. QED
    BY <1>0, <2>3, <2>4
<1>5. Plannable(Transcript) /\ ~Unplanned(Transcript, next)
  BY <1>1, <1>4, CollectedPlan
<1>6. ASSUME NEW i \in DOMAIN exchanges
      PROVE  /\ exchanges[i].status = "ok"
             /\ next[i] # NoRequest => next[i] \in Requested(exchanges)
  <2>1. exchanges[i].status = "ok"
    BY <1>0 DEF Collecting, Healthy
  <2>2. next[i] = exchanges[i].link
    BY <1>1, CollectedPages
  <2>3. CASE i = Len(exchanges)
    <3>1. Settled(exchanges[i])
      BY <1>0, <1>4, <2>3 DEF Collecting, Walk, Newest
    <3>2. QED
      BY <2>1, <2>2, <3>1, SettledFacts
  <2>4. CASE i # Len(exchanges)
    <3>1. i + 1 \in DOMAIN exchanges \ {1} /\ (i + 1) - 1 = i
      BY <1>0, <2>4
    <3>2. /\ exchanges[i + 1].request.page > 0 => exchanges[i].link = exchanges[i + 1].request
          /\ exchanges[i + 1].request.page = 0 => Settled(exchanges[i])
      BY <1>1, <3>1, CollectedPages
    <3>3. exchanges[i + 1].request.page = 0 \/ exchanges[i + 1].request.page > 0
      BY <3>1, ExchangeFacts
    <3>4. exchanges[i].link = NoRequest \/ exchanges[i].link = exchanges[i + 1].request
      BY <3>2, <3>3, SettledFacts
    <3>5. QED
      BY <2>1, <2>2, <3>1, <3>4 DEF Requested
  <2>5. QED
    BY <2>3, <2>4
<1>7. ASSUME contract = "build_validation_history", NEW r \in RevisionsIn(exchanges),
             NEW kind \in {"check_runs", "status"}
      PROVE  ~CountFails(exchanges, kind, r)
  <2>1. /\ AddsUp("check_runs", r) /\ AddsUp("status", r)
        /\ ItemsIn(exchanges, Pages("check_runs", r)) <= SuiteLimit
    BY <1>7 DEF CountsAddUp
  <2>2. QED
    BY <2>1, CountsHold
<1>8. ~Incomplete(Transcript, next)
  BY <1>3, <1>5, <1>6, <1>7, TranscriptFacts, PlannedPromised DEF Incomplete
<1>9. ~InvalidComposite(Transcript, next)
  BY <1>0, <1>1, CollectedValid
<1>10. QED
  BY <1>1, <1>5, <1>8, <1>9, TranscriptFacts DEF Assess, AssessComposite

LEMMA HistoryAgrees ==
    ASSUME Typed, Collecting, contract \in Histories, Sealed, ~UnreadThreads
    PROVE  IF ended = "Exhausted"
           THEN (Assess(Transcript) = "Complete") <=> CountsAddUp
           ELSE Assess(Transcript) = StatusOf(ended)
<1>0. DOMAIN exchanges = 1..Len(exchanges) /\ Len(exchanges) \in Nat
  BY DEF Typed
<1>1. PICK next : next = NextPages(Transcript)
  OBVIOUS
<1>2. ~InvalidComposite(Transcript, next)
  BY <1>1, CollectedValid
<1>3. CASE ended = "Exhausted"
  <2>1. Assess(Transcript) = "Complete" => CountsAddUp
    BY CompositeClosed
  <2>2. CountsAddUp => Assess(Transcript) = "Complete"
    BY <1>3, HistoryExhausted
  <2>3. QED
    BY <1>3, <2>1, <2>2
<1>4. CASE ended = "Truncated"
  <2>1. exchanges # <<>> /\ Newest.link = cut /\ cut # NoRequest
    BY <1>4 DEF Collecting, Walk, Typed
  <2>2. Len(exchanges) \in DOMAIN exchanges
    BY <1>0, <2>1
  <2>3. Len(exchanges) > 1
    <3>1. CASE Len(exchanges) = 1
      <4>1. exchanges[1].request.kind \in Objects /\ exchanges[1].link = cut
        BY <2>1, <3>1, OpeningFacts DEF Collecting, Walk, Newest
      <4>2. exchanges[1].link = NoRequest
        BY <2>2, <3>1, <4>1, ExchangeFacts DEF Shaped
      <4>3. QED
        BY <2>1, <4>1, <4>2
    <3>2. QED
      BY <1>0, <2>2, <3>1
  <2>4. ~Unplanned(Transcript, next)
    BY <1>1, <1>4, <2>3, CollectedPlan
  <2>5. TruncatedAt(Transcript, next)
    <3>1. next = [i \in 1..Len(exchanges) |-> exchanges[i].link]
      BY <1>0, <1>1, CollectedPages
    <3>2. Len(next) = Len(exchanges) /\ next[Len(next)] = cut
      BY <1>0, <2>1, <2>2, <3>1 DEF Newest
    <3>3. QED
      BY <2>1, <3>2, TranscriptFacts DEF TruncatedAt
  <2>6. QED
    BY <1>1, <1>2, <1>4, <2>4, <2>5, TranscriptFacts DEF Assess, AssessComposite, StatusOf
<1>5. CASE ended \notin {"Exhausted", "Truncated"}
  BY <1>1, <1>2, <1>5, TranscriptFacts DEF Assess, AssessComposite
<1>6. QED
  BY <1>3, <1>4, <1>5

LEMMA SuccessorStage ==
    ASSUME Typed, contract \notin Histories, exchanges[1].status = "ok"
    PROVE  /\ PlannedSuccessor(Transcript, TRUE) = StageOne
           /\ PlannedSuccessor(Transcript, FALSE) \subseteq StageOne
           /\ contract \in LookedUp => StageOne = {First(LookedUpKind(contract), NoId)}
           /\ \A p, q \in StageOne : p = q
<1>1. contract \in LookedUp \cup {"branch_protection", "branch_protection_gh", "branch_policy"}
  BY AcquisitionAssumption DEF Typed, Contracts
<1>2. \A kind : Firsts({kind}, {NoId}) = {First(kind, NoId)}
  BY DEF Firsts
<1>3. CASE contract \in LookedUp
  <2>1. StageOne = {First(LookedUpKind(contract), NoId)}
    BY <1>3 DEF StageOne, LookedUp, LookedUpKind, GithubHistories
  <2>2. PlannedSuccessor(Transcript, TRUE) = Firsts({LookedUpKind(contract)}, {NoId})
    BY <1>3, TranscriptFacts DEF PlannedSuccessor, LookedUp
  <2>3. PlannedSuccessor(Transcript, FALSE) = {}
    BY <1>3, TranscriptFacts DEF PlannedSuccessor, LookedUp
  <2>4. QED
    BY <1>2, <2>1, <2>2, <2>3
<1>4. CASE contract = "branch_protection"
  <2>1. StageOne = IF Protected \in exchanges[1].found
                   THEN {First("protection", NoId)} ELSE {}
    BY <1>4 DEF StageOne, GithubHistories
  <2>2. /\ PlannedSuccessor(Transcript, TRUE) =
                IF Protected \in exchanges[1].found THEN Firsts({"protection"}, {NoId}) ELSE {}
        /\ PlannedSuccessor(Transcript, FALSE) =
                IF Protected \in exchanges[1].found THEN Firsts({"protection"}, {NoId}) ELSE {}
    BY <1>4, TranscriptFacts DEF PlannedSuccessor, LookedUp
  <2>3. QED
    BY <1>2, <1>4, <2>1, <2>2 DEF LookedUp
<1>5. CASE contract = "branch_policy"
  <2>1. StageOne = {First("configurations", NoId)}
    BY <1>5 DEF StageOne, GithubHistories
  <2>2. /\ PlannedSuccessor(Transcript, TRUE) = Firsts({"configurations"}, {NoId})
        /\ PlannedSuccessor(Transcript, FALSE) = Firsts({"configurations"}, {NoId})
    BY <1>5, TranscriptFacts DEF PlannedSuccessor, LookedUp
  <2>3. QED
    BY <1>2, <1>5, <2>1, <2>2 DEF LookedUp
<1>6. CASE contract = "branch_protection_gh"
  <2>1. StageOne = {}
    BY <1>6 DEF StageOne, GithubHistories
  <2>2. /\ PlannedSuccessor(Transcript, TRUE) = {}
        /\ PlannedSuccessor(Transcript, FALSE) = {}
    BY <1>6, TranscriptFacts DEF PlannedSuccessor, LookedUp
  <2>3. QED
    BY <1>6, <2>1, <2>2 DEF LookedUp
<1>7. QED
  BY <1>1, <1>3, <1>4, <1>5, <1>6

\* A single resource is read in the order the replay expects.
LEMMA CollectedSequence ==
    ASSUME Typed, Collecting, contract \notin Histories,
           NEW next, next = NextPages(Transcript)
    PROVE  /\ ~InvalidSequence(Transcript, next)
           /\ \A i \in DOMAIN exchanges \ {1} :
                LET r == exchanges[i].request IN
                /\ First(r.kind, r.id) \in StageOne
                /\ r.page = 0 <=> i = 2
<1>0. DOMAIN exchanges = 1..Len(exchanges) /\ Len(exchanges) \in Nat
  BY DEF Typed
<1>1. ASSUME NEW i \in DOMAIN exchanges \ {1}
      PROVE  LET r == exchanges[i].request IN
             /\ First(r.kind, r.id) \in StageOne
             /\ r.page = 0 => First(r.kind, r.id) = r
             /\ i = 2 => r.page = 0
             /\ exchanges[1].status = "ok"
  <2> DEFINE r == exchanges[i].request
  <2>1. PICK k \in 1..3 : First(r.kind, r.id) \in Populations(k)
    BY CollectedRequests
  <2>2. k = 1
    BY <2>1, PopulationRanks
  <2>3. First(r.kind, r.id) \in StageOne
    BY <2>1, <2>2, PopulationsAre
  <2>4. QED
    BY <2>3, CollectedRequests
<1>2. ASSUME NEW i \in DOMAIN exchanges \ {1}, exchanges[i].request.page = 0
      PROVE  i = 2
  <2>1. 2 \in DOMAIN exchanges \ {1}
    BY <1>0, <1>2
  <2>2. exchanges[i].request \in StageOne /\ exchanges[2].request \in StageOne
    BY <1>1, <1>2, <2>1
  <2>3. exchanges[i].request = exchanges[2].request
    BY <1>1, <1>2, <2>2, SuccessorStage
  <2>4. QED
    BY <1>2, <2>1, <2>3 DEF Collecting, Once
<1>3. exchanges # <<>> => exchanges[1].request = Opening(contract)
  BY DEF Collecting, Walk
<1>4. ASSUME contract \in LookedUp, NEW i \in DOMAIN exchanges \ {1}
      PROVE  exchanges[i].request.kind = LookedUpKind(contract)
  <2> DEFINE r == exchanges[i].request
  <2>1. First(r.kind, r.id) = First(LookedUpKind(contract), NoId)
    BY <1>1, <1>4, SuccessorStage
  <2>2. QED
    BY <2>1 DEF First, Page
<1>5. ASSUME NEW i \in DOMAIN exchanges \ {1}
      PROVE  LET planned == IF i = 2 THEN PlannedSuccessor(Transcript, TRUE) ELSE {} IN
             IF planned # {} THEN exchanges[i].request \in planned
             ELSE next[i - 1] = exchanges[i].request
  <2>1. CASE i = 2
    <3>1. exchanges[i].request \in PlannedSuccessor(Transcript, TRUE)
      BY <1>1, <2>1, SuccessorStage
    <3>2. QED
      BY <2>1, <3>1
  <2>2. CASE i # 2
    <3>1. exchanges[i].request.page > 0
      BY <1>2, <2>2, ExchangeFacts
    <3>2. next[i - 1] = exchanges[i].request
      BY <3>1, CollectedPages
    <3>3. QED
      BY <2>2, <3>2
  <2>3. QED
    BY <2>1, <2>2
<1>6. ~InvalidSequence(Transcript, next)
  BY <1>3, <1>4, <1>5, TranscriptFacts DEF InvalidSequence
<1>7. QED
  BY <1>1, <1>2, <1>6

LEMMA SingleExhausted ==
    ASSUME Typed, Collecting, contract \notin Histories, ended = "Exhausted", ~UnreadThreads,
           CountsAddUp
    PROVE  Assess(Transcript) = "Complete"
<1> DEFINE n == Len(exchanges)
<1>0. /\ DOMAIN exchanges = 1..n /\ n \in Nat /\ exchanges # <<>>
      /\ Going /\ request = NoRequest /\ stage = 3
  BY DEF Typed, Going, Sealed, Collecting, Covered, Staged
<1>1. PICK next : next = NextPages(Transcript)
  OBVIOUS
<1>2. /\ 1 \in DOMAIN exchanges /\ n \in DOMAIN exchanges
      /\ \A i \in DOMAIN exchanges : exchanges[i].status = "ok"
  BY <1>0 DEF Collecting, Healthy
<1>3. StageOne \subseteq Requested(exchanges)
  BY <1>0, PopulationsAre DEF Collecting, Covered
<1>4. ASSUME NEW p \in StageOne
      PROVE  2 \in DOMAIN exchanges
  <2>1. PICK i \in DOMAIN exchanges : exchanges[i].request = p
    BY <1>3 DEF Requested
  <2>2. i # 1
    <3>1. Opening(contract) \notin StageOne
      BY Apart, PopulationsAre
    <3>2. QED
      BY <1>0, <2>1, <3>1 DEF Collecting, Walk
  <2>3. QED
    BY <1>0, <2>1, <2>2
<1>5. ~InvalidSequence(Transcript, next)
  BY <1>1, CollectedSequence
<1>6. contract \in LookedUp => 2 \in DOMAIN exchanges
  <2>1. contract \in LookedUp => First(LookedUpKind(contract), NoId) \in StageOne
    BY <1>2, SuccessorStage
  <2>2. QED
    BY <1>4, <2>1
<1>7. /\ AfterLookup(Transcript) =
            IF contract \in LookedUp THEN {i \in DOMAIN exchanges : i > 1} ELSE DOMAIN exchanges
      /\ AfterLookup(Transcript) # {}
  BY <1>2, <1>6, TranscriptFacts DEF AfterLookup
<1>8. Terminal(Transcript, next)
  <2>1. next = [i \in 1..n |-> exchanges[i].link]
    BY <1>0, <1>1, CollectedPages
  <2>2. Len(next) = n /\ next[Len(next)] = exchanges[n].link
    BY <1>0, <1>2, <2>1
  <2>3. Settled(exchanges[n])
    BY <1>0 DEF Collecting, Walk, Newest
  <2>4. exchanges[n].link = NoRequest
    BY <1>2, <2>3, SettledFacts
  <2>5. QED
    BY <1>2, <1>7, <2>2, <2>4, TranscriptFacts DEF Terminal
<1>9. n = 1 => PlannedSuccessor(Transcript, FALSE) = {}
  <2>1. n = 1 => StageOne = {}
    BY <1>0, <1>4
  <2>2. QED
    BY <1>2, <2>1, SuccessorStage
<1>10. ResultCount(Transcript) = "agrees"
  <2>1. CASE contract \in {"check_runs", "commit_statuses"}
    <3> DEFINE kind == LookedUpKind(contract)
    <3>1. contract \in LookedUp /\ AddsUp(kind, NoId)
      BY <2>1 DEF LookedUp, CountsAddUp, LookedUpKind
    <3>2. kind # "repository" /\ exchanges[1].request.kind = "repository"
      BY <1>0, <2>1 DEF Collecting, Walk, LookedUpKind, Opening, First, Page
    <3> HIDE DEF kind
    <3>3. ASSUME NEW i \in DOMAIN exchanges \ {1}
          PROVE  exchanges[i].request.kind = kind /\ exchanges[i].request.id = NoId
      <4> DEFINE r == exchanges[i].request
      <4>1. First(r.kind, r.id) \in StageOne /\ StageOne = {First(kind, NoId)}
        BY <1>1, <1>2, <3>1, CollectedSequence, SuccessorStage DEF kind
      <4>2. QED
        BY <4>1 DEF First, Page
    <3>4. Pages(kind, NoId) = {i \in DOMAIN exchanges : i > 1}
      <4>1. \A i \in DOMAIN exchanges : i > 1 <=> i # 1
        BY <1>0
      <4>2. QED
        BY <3>2, <3>3, <4>1 DEF Pages
    <3>5. PICK i \in Pages(kind, NoId) :
            /\ exchanges[i].request.page = 0 /\ exchanges[i].total # Unreported
            /\ exchanges[i].total = ItemsIn(exchanges, Pages(kind, NoId))
      BY <3>1 DEF AddsUp
    <3>6. i = 2
      BY <1>1, <3>4, <3>5, CollectedSequence
    <3>7. AfterLookup(Transcript) = Pages(kind, NoId)
      BY <1>7, <3>1, <3>4
    <3>8. QED
      BY <1>7, <3>5, <3>6, <3>7, TranscriptFacts DEF ResultCount
  <2>2. CASE contract \notin {"check_runs", "commit_statuses"}
    BY <2>2, TranscriptFacts DEF ResultCount
  <2>3. QED
    BY <2>1, <2>2
<1>11. QED
  BY <1>1, <1>5, <1>8, <1>9, <1>10, TranscriptFacts DEF Assess, AssessSingle

LEMMA SingleAgrees ==
    ASSUME Typed, Collecting, contract \notin Histories, Sealed, ~UnreadThreads
    PROVE  IF ended = "Exhausted"
           THEN (Assess(Transcript) = "Complete") <=> CountsAddUp
           ELSE Assess(Transcript) = StatusOf(ended)
<1>1. PICK next : next = NextPages(Transcript)
  OBVIOUS
<1>2. ~InvalidSequence(Transcript, next)
  BY <1>1, CollectedSequence
<1>3. CASE ended = "Exhausted"
  <2>1. Assess(Transcript) = "Complete" => CountsAddUp
    BY SingleClosed
  <2>2. CountsAddUp => Assess(Transcript) = "Complete"
    BY <1>3, SingleExhausted
  <2>3. QED
    BY <1>3, <2>1, <2>2
<1>4. CASE ended = "Truncated"
  <2>1. exchanges # <<>> /\ Newest.link = cut
    BY <1>4 DEF Collecting, Walk
  <2>2. DOMAIN exchanges = 1..Len(exchanges) /\ Len(exchanges) \in Nat
    BY DEF Typed
  <2>3. next = [i \in 1..Len(exchanges) |-> exchanges[i].link]
    BY <1>1, <2>2, CollectedPages
  <2>4. Len(next) = Len(exchanges) /\ next[Len(next)] = cut
    BY <2>1, <2>2, <2>3 DEF Newest
  <2>5. TruncatedAt(Transcript, next)
    BY <2>1, <2>4, TranscriptFacts DEF TruncatedAt
  <2>6. QED
    BY <1>1, <1>2, <1>4, <2>5, TranscriptFacts DEF Assess, AssessSingle, StatusOf
<1>5. CASE ended \notin {"Exhausted", "Truncated"}
  BY <1>1, <1>2, <1>5, TranscriptFacts DEF Assess, AssessSingle
<1>6. QED
  BY <1>3, <1>4, <1>5

\* What is not read of a pull request's threads takes the transcript's authority.
LEMMA ThreadsUnread ==
    ASSUME Typed, Collecting, UnreadThreads
    PROVE  ~Authoritative(Transcript)
<1>1. PICK i \in DOMAIN exchanges :
        exchanges[i].request.kind = "threads" /\ exchanges[i].link # NoRequest
  BY DEF UnreadThreads
<1>2. PICK next : next = NextPages(Transcript)
  OBVIOUS
<1>3. /\ exchanges[i].link = Following(exchanges[i].request)
      /\ exchanges[i].link.kind = "threads" /\ exchanges[i].link.page > 0
  BY <1>1, ExchangeFacts, FollowingFacts DEF Shaped
<1>4. ~FollowsPages("threads")
  BY DEF FollowsPages
<1>5. exchanges[i].link \notin Requested(exchanges)
  <2> SUFFICES ASSUME NEW j \in DOMAIN exchanges, exchanges[j].request = exchanges[i].link
               PROVE  FALSE
    BY DEF Requested
  <2>1. j # 1
    <3>1. exchanges # <<>>
      BY <1>1 DEF Typed
    <3>2. exchanges[1].request.page = 0
      BY <3>1, OpeningFacts DEF Collecting, Walk
    <3>3. QED
      BY <1>3, <3>2
  <2>2. FollowsPages(exchanges[j].request.kind)
    BY <1>2, <1>3, <2>1, CollectedPages
  <2>3. QED
    BY <1>3, <1>4, <2>2
<1>6. Assess(Transcript) # "Complete"
  BY <1>1, <1>3, <1>5, CompositeClosed, SingleClosed
<1>7. ~(contract \in Histories /\ Assess(Transcript) = "Truncated")
  <2> SUFFICES ASSUME contract \in Histories, Assess(Transcript) = "Truncated" PROVE FALSE
    OBVIOUS
  <2>1. ended = "Truncated" /\ ~InvalidComposite(Transcript, next)
    BY <1>2, CompositeTruncated
  <2>2. DOMAIN exchanges = 1..Len(exchanges) /\ Len(exchanges) \in Nat
    BY DEF Typed
  <2>3. CASE i = Len(exchanges)
    BY <1>1, <1>4, <2>1, <2>3 DEF Collecting, Walk, Newest
  <2>4. CASE i # Len(exchanges)
    <3>1. i + 1 \in DOMAIN exchanges \ {1} /\ (i + 1) - 1 = i
      BY <2>2, <2>4
    <3>2. next[i] = exchanges[i].link
      BY <1>2, CollectedPages
    <3>3. next[i] = exchanges[i + 1].request
      BY <1>1, <2>1, <3>1, <3>2, TranscriptFacts DEF InvalidComposite
    <3>4. QED
      BY <1>5, <3>1, <3>2, <3>3 DEF Requested
  <2>5. QED
    BY <2>3, <2>4
<1>8. QED
  BY <1>6, <1>7, TranscriptFacts DEF Authoritative

\* The collector and the replay agree on what was collected: what was read to the
\* end is complete exactly if the provider's counts add up, and what was cut or
\* refused has the status of its ending.  (capture_*_with, planned_github_history,
\* planned_azure_history, planned_successor)
THEOREM CollectorAgreed == Spec => []CollectorAgrees
<1>1. IInv => CollectorAgrees
  <2> SUFFICES ASSUME Typed, Collecting, Sealed PROVE CollectorAgrees
    BY DEF IInv, CollectorAgrees
  <2>1. CASE UnreadThreads
    BY <2>1, ThreadsUnread DEF CollectorAgrees
  <2>2. CASE ~UnreadThreads
    BY <2>2, HistoryAgrees, SingleAgrees DEF CollectorAgrees
  <2>3. QED
    BY <2>1, <2>2
<1>2. QED
  BY <1>1, Invariant, PTL
==============================================================================
