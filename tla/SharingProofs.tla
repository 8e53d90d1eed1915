---------------------------- MODULE SharingProofs ----------------------------
(***************************************************************************)
(* For any number of requests, links and visits, and whatever calls may    *)
(* fail: one link is alive unless two requests raced, a link that nobody   *)
(* configured opens for nobody, what a reader sees or writes under         *)
(* /api/share was allowed at that moment, and no opening is lost but where *)
(* two crossed.                                                            *)
(*                                                                         *)
(* Then what leaves the archive, which is Reading: for any memories,       *)
(* export jobs and visitors, an export has its file, its names are right,  *)
(* and what a reader sees is the text that was published, if it was whole. *)
(***************************************************************************)
EXTENDS Sharing, Reading, FiniteSetTheorems, WellFoundedInduction, TLAPS

\* What a request has read and asked for, by its kind.
VisitFits(v) ==
  pc[v] # "request" =>
    /\ arg[v].link \in Rows /\ arg[v].row \in Row
    /\ arg[v].reader \in Reader /\ token[arg[v].reader] # None /\ arg[v].kind \in Kind
ArgsFit ==
  /\ arg = [p \in Request |-> arg[p]]
  /\ \A u \in Changer : pc[u] \in {"policy", "change"} =>
       /\ arg[u].link \in Rows /\ arg[u].change \in Change
       /\ pc[u] = "policy" => arg[u].change.policy # None
  /\ \A x \in Revoker : pc[x] = "revoke" => arg[x].link \in Rows
  /\ \A r \in Reader : pc[r] \in {"memoir", "count"} =>
       arg[r] \in [link : Rows, row : Row, comment : BOOLEAN]
  /\ \A v \in Visit : VisitFits(v)

\* A row is inserted once.
LinkIsNew == \A c \in Creator : pc[c] \in {"request", "insert"} => link[c] = None

\* A reader has the token of one unlock.
TokenIsFinal == \A r \in Reader : token[r] # None => pc[r] = "done"

\* Who is about to insert a link found none, and is alone in that.
OneLive ==
  ~ raced =>
    /\ \A l, m \in Live : l = m
    /\ \A c \in Creator : pc[c] = "insert" => Live = {}
    /\ \A c, d \in Creator : pc[c] = "insert" /\ pc[d] = "insert" => c = d

\* A link opens for somebody only once it is configured.
Opens(r) == r.visibility = "link" \/ r.password
InertLinks == \A l \in Rows : Opens(link[l]) => l \in configured
InertReads ==
  \A r \in Reader :
    /\ pc[r] = "memoir" /\ Opens(arg[r].row) => arg[r].link \in configured
    /\ pc[r] = "count" => arg[r].link \in configured

\* A visit under /api/share goes on with a link that was alive when it came, and
\* with a token for that link.
Shared(v) == arg[v].kind \notin TokenOnly
LiveVisit(v) ==
  /\ gone[v] \subseteq Rows \ Live
  /\ pc[v] \in {"memoir", "count", "insert", "done"} /\ Shared(v) => arg[v].link \notin gone[v]
  /\ pc[v] \in {"count", "insert", "done"} /\ Shared(v) =>
       token[arg[v].reader].link = arg[v].link
LiveVisits == \A v \in Visit : LiveVisit(v)

\* No moment of a visit at which the policy was on goes unnoticed.
Visiting(v) == pc[v] \in Call \ {"request"}
PolicyNoted(v) ==
  /\ Visiting(v) /\ policy => v \in on
  /\ (pc[v] = "insert" \/ comment[v] # None) /\ arg[v].kind = "post" => v \in on
  /\ pc[v] = "request" => comment[v] = None
PolicyIsNoted == \A v \in Visit : PolicyNoted(v)

\* Unless two requests cross, the count that one has read is the number of openings.
Counted == {p \in Counting : pc[p] \in {"done", "failed"}}
ReadsCount ==
  \A p \in Counting : Opening(p) =>
    LET l == arg[p].link IN
    /\ arg[p].row.opens <= opened[l]
    /\ l \notin crossed =>
         /\ arg[p].row.opens = opened[l]
         /\ \A q \in Counting : Opening(q) /\ arg[q].link = l => q = p
OpenedOnce == \A l \in Link : opened[l] <= Cardinality(Counted)
NoneOpened == \A l \in Link \ Rows : opened[l] = 0

LinkInv == LinkIsNew /\ OneLive /\ InertLinks
ReadInv ==
  /\ TokenIsFinal /\ InertReads /\ InertUntilConfigured
  /\ ReadsCount /\ OpenedOnce /\ NoneOpened /\ OpensAddUp
VisitInv == LiveVisits /\ PolicyIsNoted

IInv == TypeOK /\ ArgsFit /\ LinkInv /\ ReadInv /\ VisitInv

-----------------------------------------------------------------------------

LEMMA NewRowFits == NewRow \in Row /\ NewRow # None /\ ~ NewRow.revoked /\ ~ Opens(NewRow)
<1>1. MaxOpens \in Nat
  BY RequestAssumption, FS_CardinalityType DEF MaxOpens
<1>2. 0 \in 0 .. MaxOpens
  BY <1>1
<1>3. NewRow \in Row
  BY <1>2 DEF NewRow, Row
<1>4. NewRow # None
  BY <1>3, RequestAssumption
<1>5. ~ NewRow.revoked /\ ~ Opens(NewRow)
  BY DEF NewRow, Opens
<1> QED
  BY <1>3, <1>4, <1>5

LEMMA InitIInv == Init => IInv
<1> SUFFICES ASSUME Init PROVE IInv
  OBVIOUS
<1> USE DEF Init
<1>1. MaxOpens \in Nat
  BY RequestAssumption, FS_CardinalityType DEF MaxOpens
<1>2. Rows = {First} /\ Live = {First} /\ link[First] = NewRow /\ First \in Link
  <2>1. First \in Link /\ link[First] = NewRow
    BY DEF Link
  <2>2. \A l \in Link : link[l] # None <=> l = First
    BY <2>1, NewRowFits
  <2>3. Rows = {First}
    BY <2>1, <2>2 DEF Rows
  <2> QED
    BY <2>1, <2>3, NewRowFits DEF Live
<1>3. TypeOK
  <2>1. link \in [Link -> Row \cup {None}] /\ opened \in [Link -> 0 .. MaxOpens]
    BY <1>1, NewRowFits
  <2>2. pc \in [Request -> Call \cup Over] /\ \A p \in Request : arg[p] = None
    BY DEF Call
  <2>3. gone \in [Visit -> SUBSET Rows]
    OBVIOUS
  <2> QED
    BY <2>1, <2>2, <2>3 DEF TypeOK
<1>4. ArgsFit
  BY DEF ArgsFit, VisitFits, Request, Counting
<1>5. LinkInv
  BY <1>2, NewRowFits, SharingAssumption
  DEF LinkInv, LinkIsNew, OneLive, InertLinks, Request, Link
<1>6. TokenIsFinal /\ InertReads /\ InertUntilConfigured
  BY DEF TokenIsFinal, InertReads, InertUntilConfigured, Request, Counting
<1>7. OpenedOnce
  <2>1. IsFiniteSet(Counted)
    BY RequestAssumption, FS_Subset DEF Counted
  <2>2. Cardinality(Counted) \in Nat
    BY <2>1, FS_CardinalityType
  <2> QED
    BY <2>2 DEF OpenedOnce
<1>8. ReadsCount /\ NoneOpened /\ OpensAddUp
  BY <1>2 DEF ReadsCount, NoneOpened, OpensAddUp, Opening, NewRow, Request, Counting, Rows
<1>9. VisitInv
  BY DEF VisitInv, LiveVisits, LiveVisit, PolicyIsNoted, PolicyNoted, Visiting, Call, Request,
     Counting
<1> QED
  BY <1>3, <1>4, <1>5, <1>6, <1>7, <1>8, <1>9 DEF IInv, ReadInv

-----------------------------------------------------------------------------
(* What a step does not touch *)

LEMMA LinkFrame ==
  ASSUME LinkInv, UNCHANGED <<link, raced, configured>>,
         \A c \in Creator : pc'[c] = pc[c]
  PROVE  LinkInv'
BY DEF LinkInv, LinkIsNew, OneLive, InertLinks, Rows, Live

LEMMA LiveFrame ==
  ASSUME Rows' = Rows, \A l \in Rows : link'[l].revoked = link[l].revoked
  PROVE  Live' = Live
<1>1. \A l : l \in Live <=> l \in Rows /\ ~ link[l].revoked
  BY DEF Live
<1>2. \A l : l \in Live' <=> l \in Rows' /\ ~ link'[l].revoked
  BY DEF Live
<1> QED
  BY <1>1, <1>2

\* Counted openings stay counted.
LEMMA CountedGrows ==
  ASSUME \A p \in Counting : pc[p] \in {"done", "failed"} => pc'[p] \in {"done", "failed"}
  PROVE  /\ Cardinality(Counted) \in Nat /\ Cardinality(Counted') \in Nat
         /\ Cardinality(Counted) <= Cardinality(Counted')
         /\ Cardinality(Counted') <= MaxOpens
<1>1. Counted \subseteq Counted' /\ Counted' \subseteq Counting
  BY DEF Counted
<1>2. IsFiniteSet(Counted')
  BY <1>1, RequestAssumption, FS_Subset
<1> QED
  BY <1>1, <1>2, RequestAssumption, FS_Subset, FS_CardinalityType DEF MaxOpens

\* A step of a request that does not begin to read the count.
LEMMA ReadFrame ==
  ASSUME TypeOK, ReadInv, UNCHANGED <<link, token, opened, crossed, configured>>,
         \A r \in Reader : pc'[r] = pc[r] /\ arg'[r] = arg[r],
         \A v \in Visit :
           /\ pc'[v] = "count" => pc[v] = "count" /\ arg'[v] = arg[v]
           /\ pc[v] \in {"done", "failed"} => pc'[v] = pc[v]
  PROVE  ReadInv'
<1>1. \A p \in Counting : Opening(p)' => Opening(p) /\ arg'[p] = arg[p]
  BY DEF Counting, Opening
<1>2. (TokenIsFinal /\ InertReads /\ InertUntilConfigured)'
  BY DEF ReadInv, TokenIsFinal, InertReads, InertUntilConfigured
<1>3. ReadsCount'
  BY <1>1 DEF ReadInv, ReadsCount
<1>4. OpenedOnce'
  <2>1. \A p \in Counting : pc[p] \in {"done", "failed"} => pc'[p] \in {"done", "failed"}
    BY DEF Counting
  <2>2. \A l \in Link : opened[l] \in Nat /\ opened'[l] = opened[l]
    BY DEF TypeOK
  <2> QED
    BY <2>1, <2>2, CountedGrows DEF ReadInv, OpenedOnce
<1>5. NoneOpened' /\ OpensAddUp'
  BY DEF ReadInv, NoneOpened, OpensAddUp, Rows
<1> QED
  BY <1>2, <1>3, <1>4, <1>5 DEF ReadInv

\* Links are only added and revoked, and a token is for one link.
LEMMA VisitFrame ==
  ASSUME VisitInv, ArgsFit, UNCHANGED <<policy, comment, gone, on>>,
         Rows \ Live \subseteq Rows' \ Live',
         \A r \in Reader : token[r] # None => token'[r].link = token[r].link,
         \A v \in Visit :
           /\ arg'[v] = arg[v]
           /\ pc'[v] = pc[v] \/ (pc[v] = "count" /\ pc'[v] \in {"done", "failed"})
  PROVE  VisitInv'
<1>1. LiveVisits'
  <2>1. \A v \in Visit : gone'[v] \subseteq Rows' \ Live'
    BY DEF VisitInv, LiveVisits, LiveVisit
  <2>2. \A v \in Visit : pc[v] # "request" => token'[arg[v].reader].link = token[arg[v].reader].link
    BY DEF ArgsFit, VisitFits
  <2> QED
    BY <2>1, <2>2 DEF VisitInv, LiveVisits, LiveVisit, Shared
<1>2. PolicyIsNoted'
  BY DEF VisitInv, PolicyIsNoted, PolicyNoted, Visiting, Call
<1> QED
  BY <1>1, <1>2 DEF VisitInv

-----------------------------------------------------------------------------
(* The requests of the owner *)

\* An owner's request is no reader's and makes no count.
LEMMA OwnerIsApart ==
  ASSUME IInv, NEW o \in Creator \cup Changer \cup Revoker,
         \A p \in Request \ {o} : pc'[p] = pc[p] /\ arg'[p] = arg[p]
  PROVE  /\ \A p \in Counting : p # o /\ pc'[p] = pc[p] /\ arg'[p] = arg[p]
         /\ \A v \in Visit : pc'[v] = pc[v] /\ arg'[v] = arg[v]
         /\ \A r \in Reader : pc'[r] = pc[r] /\ arg'[r] = arg[r]
         /\ UNCHANGED <<link, token, opened, crossed, configured>> => ReadInv'
<1>1. \A p \in Counting : p # o /\ pc'[p] = pc[p] /\ arg'[p] = arg[p]
  BY RequestAssumption DEF Request
<1>2. \A p \in Reader \cup Visit : pc'[p] = pc[p] /\ arg'[p] = arg[p]
  BY <1>1 DEF Counting
<1>3. ASSUME UNCHANGED <<link, token, opened, crossed, configured>> PROVE ReadInv'
  BY <1>2, <1>3, ReadFrame DEF IInv
<1> QED
  BY <1>1, <1>2, <1>3

LEMMA GetStep ==
  ASSUME IInv, NEW c \in Creator, Get(c)
  PROVE  IInv'
<1> USE DEF IInv
<1>1. /\ pc[c] = "request" /\ pc' = [pc EXCEPT ![c] = IF Live = {} THEN "insert" ELSE "returned"]
      /\ raced' = (raced \/ (Live = {} /\ \E d \in Creator : pc[d] = "insert"))
      /\ UNCHANGED <<link, policy, token, comment, arg, opened, crossed, configured, gone, on>>
  BY DEF Get, Goto, AfterGet
<1>2. /\ \A p \in Request \ {c} : pc'[p] = pc[p] /\ arg'[p] = arg[p]
      /\ pc'[c] \in {"insert", "returned"} /\ (pc'[c] = "insert" => Live = {})
  BY <1>1 DEF TypeOK, Request
<1>3. TypeOK'
  <2>1. raced' \in BOOLEAN
    BY <1>1 DEF TypeOK
  <2> QED
    BY <1>1, <2>1 DEF TypeOK, Call, Over, Rows, Request
<1>4. ArgsFit'
  BY <1>1, <1>2, RequestAssumption DEF ArgsFit, VisitFits, Rows, Request, Counting
<1>5. LinkInv'
  <2>1. LinkIsNew' /\ InertLinks'
    BY <1>1, <1>2 DEF LinkInv, LinkIsNew, InertLinks, Rows, Request
  <2>2. OneLive'
    <3> SUFFICES ASSUME ~ raced' PROVE OneLive'
      BY DEF OneLive
    <3>1. ~ raced /\ (Live = {} => \A d \in Creator : pc[d] # "insert") /\ Live' = Live
      BY <1>1 DEF Live, Rows
    <3>2. \A d \in Creator : pc'[d] = "insert" => Live = {}
      BY <1>2, <3>1 DEF LinkInv, OneLive, Request
    <3>3. \A d, e \in Creator : pc'[d] = "insert" /\ pc'[e] = "insert" => d = e
      BY <1>2, <3>1 DEF LinkInv, OneLive, Request
    <3> QED
      BY <3>1, <3>2, <3>3 DEF LinkInv, OneLive
  <2> QED
    BY <2>1, <2>2 DEF LinkInv
<1>6. ReadInv'
  BY <1>1, <1>2, OwnerIsApart
<1>7. VisitInv'
  BY <1>1, <1>2, OwnerIsApart, VisitFrame DEF Live, Rows
<1> QED
  BY <1>3, <1>4, <1>5, <1>6, <1>7

LEMMA InsertLinkStep ==
  ASSUME IInv, NEW c \in Creator, InsertLink(c)
  PROVE  IInv'
<1> USE DEF IInv
<1>1. /\ pc[c] = "insert" /\ \E to \in {"done", "failed"} : pc' = [pc EXCEPT ![c] = to]
      /\ link' = [link EXCEPT ![c] = NewRow] \/ link' = link
      /\ UNCHANGED <<policy, token, comment, arg, ghosts>>
  BY DEF InsertLink, Goto, Then
<1>2. /\ \A p \in Request \ {c} : pc'[p] = pc[p] /\ arg'[p] = arg[p]
      /\ pc'[c] \in {"done", "failed"}
      /\ UNCHANGED <<raced, opened, crossed, configured, gone, on>>
  BY <1>1 DEF TypeOK, Request, ghosts
<1>3. link[c] = None /\ c \in Link
  BY <1>1 DEF LinkInv, LinkIsNew, Link
<1>4. /\ link' \in [Link -> Row \cup {None}]
      /\ \A l \in Link : link'[l] = link[l] \/ (l = c /\ link'[l] = NewRow)
      /\ \A l \in Rows : l \in Rows' /\ link'[l] = link[l]
      /\ \A l \in Rows' : l \in Rows \/ (l = c /\ link'[l] = NewRow)
      /\ \A l \in Live' : l \in Live \/ l = c
      /\ Rows \ Live \subseteq Rows' \ Live'
  BY <1>1, <1>3, NewRowFits DEF TypeOK, Rows, Live
<1>5. TypeOK'
  <2>1. pc' \in [Request -> Call \cup Over]
    BY <1>1 DEF TypeOK, Over
  <2> QED
    BY <1>1, <1>2, <1>4, <2>1 DEF TypeOK
<1>6. ArgsFit'
  BY <1>1, <1>2, <1>4, RequestAssumption DEF ArgsFit, VisitFits, Request, Counting
<1>7. LinkInv'
  <2>1. LinkIsNew'
    BY <1>2, <1>4 DEF LinkInv, LinkIsNew, Request, Link
  <2>2. InertLinks'
    BY <1>2, <1>4, NewRowFits DEF LinkInv, InertLinks
  <2>3. OneLive'
    <3> SUFFICES ASSUME ~ raced PROVE OneLive'
      BY <1>2 DEF OneLive
    <3>1. Live = {} /\ \A d \in Creator : pc[d] = "insert" => d = c
      BY <1>1 DEF LinkInv, OneLive
    <3>2. \A d \in Creator : pc'[d] # "insert"
      BY <1>2, <3>1 DEF Request
    <3> QED
      BY <1>4, <3>1, <3>2 DEF OneLive
  <2> QED
    BY <2>1, <2>2, <2>3 DEF LinkInv
<1>8. ReadInv'
  <2>1. \A p \in Counting : pc'[p] = pc[p] /\ arg'[p] = arg[p]
    BY <1>2, OwnerIsApart
  <2>2. (TokenIsFinal /\ InertReads /\ InertUntilConfigured)'
    BY <1>1, <1>2, <2>1 DEF ReadInv, TokenIsFinal, InertReads, InertUntilConfigured, Counting
  <2>3. ReadsCount'
    BY <1>2, <2>1 DEF ReadInv, ReadsCount, Opening
  <2>4. Counted' = Counted
    BY <2>1 DEF Counted
  <2>5. OpenedOnce'
    BY <1>2, <2>4 DEF ReadInv, OpenedOnce
  <2>6. NoneOpened' /\ OpensAddUp'
    <3>1. opened[c] = 0 /\ NewRow.opens = 0
      BY <1>3 DEF ReadInv, NoneOpened, NewRow, Rows
    <3>2. NoneOpened'
      BY <1>2, <1>4 DEF ReadInv, NoneOpened
    <3>3. \A l \in Rows' : (l \in Rows /\ link'[l] = link[l]) \/ (l = c /\ link'[l].opens = 0)
      BY <1>4, <3>1
    <3>4. OpensAddUp'
      BY <1>2, <3>1, <3>3 DEF ReadInv, OpensAddUp
    <3> QED
      BY <3>2, <3>4
  <2> QED
    BY <2>2, <2>3, <2>5, <2>6 DEF ReadInv
<1>9. VisitInv'
  BY <1>1, <1>2, <1>4, OwnerIsApart, VisitFrame
<1> QED
  BY <1>5, <1>6, <1>7, <1>8, <1>9

\* A step of a change or a revocation that leaves the links as they are.
LEMMA AskStep ==
  ASSUME IInv, NEW o \in Changer \cup Revoker, NEW to \in Call \cup Over,
         pc' = [pc EXCEPT ![o] = to], arg' = [p \in Request |-> arg'[p]],
         \A p \in Request \ {o} : arg'[p] = arg[p],
         arg'[o] # None => arg'[o].link \in Rows,
         UNCHANGED <<link, token, comment, raced, opened, crossed, configured, gone>>,
         policy' \in BOOLEAN, on' \subseteq Visit, ArgsFit'
  PROVE  VisitInv' => IInv'
<1> USE DEF IInv
<1>1. \A p \in Request \ {o} : pc'[p] = pc[p] /\ arg'[p] = arg[p]
  BY DEF TypeOK
<1>2. Rows' = Rows /\ Live' = Live
  BY DEF Rows, Live
<1>3. TypeOK'
  <2>1. pc' \in [Request -> Call \cup Over]
    BY DEF TypeOK
  <2>2. \A p \in Request : arg'[p] # None => arg'[p].link \in Rows'
    BY <1>1, <1>2 DEF TypeOK
  <2> QED
    BY <1>2, <2>1, <2>2 DEF TypeOK
<1>4. \A c \in Creator : pc'[c] = pc[c]
  BY <1>1, RequestAssumption DEF Request
<1>5. LinkInv'
  BY <1>4, LinkFrame
<1>6. ReadInv'
  BY <1>1, OwnerIsApart
<1> QED
  BY <1>3, <1>5, <1>6

LEMMA BeginChangeStep ==
  ASSUME IInv, NEW u \in Changer, BeginChange(u)
  PROVE  IInv'
<1> USE DEF IInv
<1>1. /\ \/ pc' = [pc EXCEPT ![u] = "refused"] /\ arg' = arg
         \/ \E l \in Live, ch \in Payload, to \in {"policy", "change", "done"} :
              /\ arg' = [arg EXCEPT ![u] = [link |-> l, change |-> ch]]
              /\ pc' = [pc EXCEPT ![u] = to]
              /\ to = "policy" => ch.policy # None
      /\ UNCHANGED <<link, policy, token, comment, ghosts>>
  BY DEF BeginChange, Goto, AfterPolicy
<1>2. UNCHANGED <<link, policy, token, comment, raced, opened, crossed, configured, gone, on>>
  BY <1>1 DEF ghosts
<1>3. u \in Request /\ Live \subseteq Rows /\ Rows' = Rows
  BY <1>2 DEF Request, Live, Rows
<1>4. /\ arg' = [p \in Request |-> arg'[p]]
      /\ \A p \in Request \ {u} : pc'[p] = pc[p] /\ arg'[p] = arg[p]
      /\ arg'[u] # None => arg'[u].link \in Rows
  BY <1>1, <1>3 DEF TypeOK, ArgsFit, VisitFits
<1>5. ArgsFit'
  <2>1. pc'[u] \in {"policy", "change"} =>
          /\ arg'[u].link \in Rows /\ arg'[u].change \in Change
          /\ pc'[u] = "policy" => arg'[u].change.policy # None
    <3>1. CASE pc'[u] = "refused"
      BY <3>1
    <3>2. ASSUME NEW l \in Live, NEW ch \in Payload, arg'[u] = [link |-> l, change |-> ch],
                 pc'[u] = "policy" => ch.policy # None
          PROVE  /\ arg'[u].link \in Rows /\ arg'[u].change \in Change
                 /\ pc'[u] = "policy" => arg'[u].change.policy # None
      BY <1>3, <3>2, SharingAssumption
    <3> QED
      BY <1>1, <1>3, <3>1, <3>2 DEF TypeOK, ArgsFit, VisitFits
  <2>2. \A p \in Changer : p # u => pc'[p] = pc[p] /\ arg'[p] = arg[p]
    BY <1>4 DEF Request
  <2>3. \A p \in Revoker \cup Reader \cup Visit : pc'[p] = pc[p] /\ arg'[p] = arg[p]
    BY <1>4, RequestAssumption DEF Request, Counting
  <2> QED
    BY <1>2, <1>3, <1>4, <2>1, <2>2, <2>3 DEF ArgsFit, VisitFits
<1>6. VisitInv'
  BY <1>2, <1>4, OwnerIsApart, VisitFrame DEF Live, Rows
<1>7. \E to \in Call \cup Over : pc' = [pc EXCEPT ![u] = to]
  BY <1>1 DEF Call, Over
<1> QED
  BY <1>2, <1>4, <1>5, <1>6, <1>7, AskStep DEF TypeOK

LEMMA BeginRevokeStep ==
  ASSUME IInv, NEW x \in Revoker, BeginRevoke(x)
  PROVE  IInv'
<1> USE DEF IInv
<1>1. /\ \/ pc' = [pc EXCEPT ![x] = "refused"] /\ arg' = arg
         \/ \E l \in Live : arg' = [arg EXCEPT ![x] = [link |-> l]]
                            /\ pc' = [pc EXCEPT ![x] = "revoke"]
      /\ UNCHANGED <<link, policy, token, comment, ghosts>>
  BY DEF BeginRevoke, Goto
<1>2. UNCHANGED <<link, policy, token, comment, raced, opened, crossed, configured, gone, on>>
  BY <1>1 DEF ghosts
<1>3. x \in Request /\ Live \subseteq Rows /\ Rows' = Rows
  BY <1>2 DEF Request, Live, Rows
<1>4. /\ arg' = [p \in Request |-> arg'[p]]
      /\ \A p \in Request \ {x} : pc'[p] = pc[p] /\ arg'[p] = arg[p]
      /\ arg'[x] # None => arg'[x].link \in Rows
  BY <1>1, <1>3 DEF TypeOK, ArgsFit, VisitFits
<1>5. ArgsFit'
  <2>1. pc'[x] = "revoke" => arg'[x].link \in Rows
    BY <1>1, <1>3 DEF TypeOK, ArgsFit, VisitFits
  <2>2. \A v \in Visit : VisitFits(v)'
    <3>1. \A v \in Visit : pc'[v] = pc[v] /\ arg'[v] = arg[v]
      BY <1>4, OwnerIsApart
    <3> QED
      BY <1>2, <1>3, <3>1 DEF ArgsFit, VisitFits
  <2>3. \A y \in Revoker : pc'[y] = "revoke" => arg'[y].link \in Rows
    BY <1>4, <2>1 DEF ArgsFit, Request
  <2>4. \A p \in Changer \cup Reader : pc'[p] = pc[p] /\ arg'[p] = arg[p]
    BY <1>4, RequestAssumption DEF Request, Counting
  <2> QED
    BY <1>2, <1>3, <1>4, <2>2, <2>3, <2>4 DEF ArgsFit
<1>6. VisitInv'
  BY <1>2, <1>4, OwnerIsApart, VisitFrame DEF Live, Rows
<1>7. \E to \in Call \cup Over : pc' = [pc EXCEPT ![x] = to]
  BY <1>1 DEF Call, Over
<1> QED
  BY <1>2, <1>4, <1>5, <1>6, <1>7, AskStep DEF TypeOK

\* Whoever is at work when the policy is on is noted.
LEMMA ChangePolicyStep ==
  ASSUME IInv, NEW u \in Changer, ChangePolicy(u)
  PROVE  IInv'
<1> USE DEF IInv
<1>1. /\ pc[u] = "policy" /\ \E to \in {"change", "done", "failed"} : pc' = [pc EXCEPT ![u] = to]
      /\ policy' \in {policy, arg[u].change.policy}
      /\ on' = IF policy' THEN {v \in Visit : pc[v] \notin {"request"} \cup Over} \cup on ELSE on
      /\ UNCHANGED <<link, token, comment, arg, raced, opened, crossed, configured, gone>>
  BY DEF ChangePolicy, Goto, Then, AfterPolicy
<1>2. u \in Request /\ Rows' = Rows /\ Live' = Live
  BY <1>1 DEF Request, Live, Rows
<1>3. /\ \A p \in Request \ {u} : pc'[p] = pc[p] /\ arg'[p] = arg[p]
      /\ pc'[u] \in {"change", "done", "failed"}
  BY <1>1, <1>2 DEF TypeOK
<1>4. policy' \in BOOLEAN /\ on' \subseteq Visit
  BY <1>1 DEF TypeOK, ArgsFit, VisitFits, Change
<1>5. ArgsFit'
  BY <1>1, <1>2, <1>3, RequestAssumption DEF ArgsFit, VisitFits, Request, Counting
<1>6. VisitInv'
  <2>1. \A v \in Visit : pc'[v] = pc[v] /\ arg'[v] = arg[v]
    BY <1>3, OwnerIsApart
  <2>2. LiveVisits'
    BY <1>1, <1>2, <2>1 DEF VisitInv, LiveVisits, LiveVisit, Shared
  <2>3. \A v \in Visit : Visiting(v) /\ policy' => v \in on'
    BY <1>1 DEF Visiting, Call, Over
  <2>4. on \subseteq on'
    BY <1>1
  <2>5. PolicyIsNoted'
    BY <1>1, <2>1, <2>3, <2>4 DEF VisitInv, PolicyIsNoted, PolicyNoted, Visiting
  <2> QED
    BY <2>2, <2>5 DEF VisitInv
<1>7. \E to \in Call \cup Over : pc' = [pc EXCEPT ![u] = to]
  BY <1>1 DEF Call, Over
<1>8. arg' = [p \in Request |-> arg'[p]] /\ (arg'[u] # None => arg'[u].link \in Rows)
  BY <1>1, <1>2 DEF TypeOK, ArgsFit, VisitFits
<1> QED
  BY <1>1, <1>3, <1>4, <1>5, <1>6, <1>7, <1>8, AskStep

-----------------------------------------------------------------------------
(* A row changes: its count stays, and a revocation too *)

LEMMA AmendStep ==
  ASSUME IInv, NEW l \in Rows, NEW r \in Row, link' = [link EXCEPT ![l] = r],
         r.opens = link[l].opens, link[l].revoked => r.revoked,
         configured \subseteq configured', configured' \subseteq configured \cup {l},
         Opens(r) => l \in configured',
         \/ pc' = pc
         \/ \E o \in Changer \cup Revoker, to \in {"done", "failed"} : pc' = [pc EXCEPT ![o] = to],
         UNCHANGED <<policy, token, comment, arg, raced, opened, crossed, gone, on>>
  PROVE  IInv'
<1> USE DEF IInv
<1>1. /\ link' \in [Link -> Row \cup {None}] /\ Rows' = Rows /\ link'[l] = r
      /\ \A m \in Link : m # l => link'[m] = link[m]
  BY RequestAssumption DEF TypeOK, Rows
<1>2. Live' \subseteq Live /\ Rows \ Live \subseteq Rows' \ Live'
  BY <1>1 DEF Live
<1>3. \A p \in Counting \cup Creator : pc'[p] = pc[p]
  BY RequestAssumption DEF TypeOK, Request
<1>4. \A p \in Request : pc'[p] = pc[p] \/ (p \in Changer \cup Revoker /\ pc'[p] \in {"done", "failed"})
  BY DEF TypeOK
<1>5. TypeOK'
  <2>1. pc' \in [Request -> Call \cup Over]
    BY DEF TypeOK, Over
  <2>2. crossed' \cup configured' \subseteq Rows'
    BY <1>1 DEF TypeOK
  <2> QED
    BY <1>1, <2>1, <2>2 DEF TypeOK
<1>6. ArgsFit'
  BY <1>1, <1>3, <1>4 DEF ArgsFit, VisitFits, Request, Counting
<1>7. LinkInv'
  <2>1. LinkIsNew'
    BY <1>1, <1>3 DEF LinkInv, LinkIsNew, Rows, Link
  <2>2. OneLive'
    BY <1>2, <1>3 DEF LinkInv, OneLive
  <2>3. InertLinks'
    BY <1>1 DEF LinkInv, InertLinks, Rows
  <2> QED
    BY <2>1, <2>2, <2>3 DEF LinkInv
<1>8. ReadInv'
  <2>1. (TokenIsFinal /\ InertReads /\ InertUntilConfigured)'
    BY <1>3 DEF ReadInv, TokenIsFinal, InertReads, InertUntilConfigured, Counting
  <2>2. ReadsCount'
    BY <1>3 DEF ReadInv, ReadsCount, Opening
  <2>3. Counted' = Counted
    BY <1>3 DEF Counted
  <2>4. OpenedOnce' /\ NoneOpened'
    BY <1>1, <2>3 DEF ReadInv, OpenedOnce, NoneOpened
  <2>5. OpensAddUp'
    BY <1>1 DEF ReadInv, OpensAddUp, Rows
  <2> QED
    BY <2>1, <2>2, <2>4, <2>5 DEF ReadInv
<1>9. VisitInv'
  BY <1>2, <1>3, VisitFrame DEF Counting
<1> QED
  BY <1>5, <1>6, <1>7, <1>8, <1>9

LEMMA ChangeLinkStep ==
  ASSUME IInv, NEW u \in Changer, ChangeLink(u)
  PROVE  IInv'
<1> USE DEF IInv
<1> DEFINE l == arg[u].link
           ch == arg[u].change
           new == Changed(link[l], ch)
<1>1. /\ pc[u] = "change" /\ \E to \in {"done", "failed"} : pc' = [pc EXCEPT ![u] = to]
      /\ \/ link' = link /\ configured' = configured
         \/ /\ link' = [link EXCEPT ![l] = new]
            /\ configured' = IF ch.password = "set" \/ ch.visibility = "link"
                                THEN configured \cup {l} ELSE configured
      /\ UNCHANGED <<policy, token, comment, arg, raced, opened, crossed, gone, on>>
  BY DEF ChangeLink, Goto, Then
<1>2. l \in Rows /\ ch \in Change /\ link[l] \in Row
  BY <1>1 DEF ArgsFit, VisitFits, TypeOK, Rows
<1>3. /\ new \in Row /\ new.opens = link[l].opens /\ new.revoked = link[l].revoked
      /\ new.password = IF ch.password = None THEN link[l].password ELSE ch.password = "set"
      /\ new.visibility = IF ch.visibility = None THEN link[l].visibility ELSE ch.visibility
  BY <1>2 DEF Changed, Row, Change
<1>4. CASE link' = link /\ configured' = configured
  <2>1. link' = [link EXCEPT ![l] = link[l]]
    BY <1>4 DEF TypeOK
  <2>2. Opens(link[l]) => l \in configured
    BY <1>2 DEF LinkInv, InertLinks
  <2> HIDE DEF l
  <2> QED
    BY <1>1, <1>2, <1>4, <2>1, <2>2, AmendStep
<1>5. CASE /\ link' = [link EXCEPT ![l] = new]
           /\ configured' = IF ch.password = "set" \/ ch.visibility = "link"
                               THEN configured \cup {l} ELSE configured
  <2>1. Opens(new) => l \in configured'
    BY <1>2, <1>3, <1>5 DEF LinkInv, InertLinks, Opens, Change
  <2> HIDE DEF l, ch, new
  <2> QED
    BY <1>1, <1>2, <1>3, <1>5, <2>1, AmendStep
<1> QED
  BY <1>1, <1>4, <1>5

LEMMA RevokeStep ==
  ASSUME IInv, NEW x \in Revoker, Revoke(x)
  PROVE  IInv'
<1> USE DEF IInv
<1> DEFINE l == arg[x].link
           new == [link[l] EXCEPT !.revoked = TRUE]
<1>1. /\ pc[x] = "revoke" /\ \E to \in {"done", "failed"} : pc' = [pc EXCEPT ![x] = to]
      /\ link' = link \/ link' = [link EXCEPT ![l] = new]
      /\ UNCHANGED <<policy, token, comment, arg, ghosts>>
  BY DEF Revoke, Goto, Then
<1>2. UNCHANGED <<policy, token, comment, arg, raced, opened, crossed, configured, gone, on>>
  BY <1>1 DEF ghosts
<1>3. l \in Rows /\ link[l] \in Row /\ (Opens(link[l]) => l \in configured)
  BY <1>1 DEF ArgsFit, VisitFits, TypeOK, Rows, LinkInv, InertLinks
<1>4. /\ new \in Row /\ new.opens = link[l].opens /\ new.revoked
      /\ Opens(new) => Opens(link[l])
  BY <1>3 DEF Row, Opens
<1>5. link' = [link EXCEPT ![l] = link[l]] \/ link' = [link EXCEPT ![l] = new]
  BY <1>1 DEF TypeOK
<1> HIDE DEF l, new
<1> QED
  BY <1>1, <1>2, <1>3, <1>4, <1>5, AmendStep

LEMMA LinkExpiresStep ==
  ASSUME IInv, NEW l \in Link, LinkExpires(l)
  PROVE  IInv'
<1> USE DEF IInv
<1> DEFINE new == [link[l] EXCEPT !.expires = "past"]
<1>1. /\ l \in Rows /\ link' = [link EXCEPT ![l] = new] /\ pc' = pc
      /\ UNCHANGED <<policy, token, comment, arg, raced, opened, crossed, configured, gone, on>>
  BY DEF LinkExpires, ghosts
<1>2. link[l] \in Row /\ (Opens(link[l]) => l \in configured)
  BY <1>1 DEF TypeOK, Rows, LinkInv, InertLinks
<1>3. /\ new \in Row /\ new.opens = link[l].opens /\ new.revoked = link[l].revoked
      /\ Opens(new) => Opens(link[l])
  BY <1>2 DEF Row, Opens
<1> HIDE DEF new
<1> QED
  BY <1>1, <1>2, <1>3, AmendStep

LEMMA TokenExpiresStep ==
  ASSUME IInv, NEW r \in Reader, TokenExpires(r)
  PROVE  IInv'
<1> USE DEF IInv
<1>1. /\ token[r] # None /\ token' = [token EXCEPT ![r].expired = TRUE]
      /\ UNCHANGED <<link, policy, comment, pc, arg, raced, opened, crossed, configured, gone, on>>
  BY DEF TokenExpires, ghosts
<1>2. /\ token' \in [Reader -> Token \cup {None}]
      /\ \A s \in Reader : token[s] # None <=> token'[s] # None
      /\ \A s \in Reader : token[s] # None => token'[s].link = token[s].link
  BY <1>1, RequestAssumption DEF TypeOK, Token
<1>3. Rows' = Rows /\ Live' = Live
  BY <1>1 DEF Rows, Live
<1>4. TypeOK' /\ ArgsFit'
  BY <1>1, <1>2, <1>3 DEF TypeOK, ArgsFit, VisitFits
<1>5. LinkInv'
  BY <1>1, LinkFrame
<1>6. ReadInv'
  <2>1. (TokenIsFinal /\ InertReads /\ InertUntilConfigured)'
    BY <1>1, <1>2 DEF ReadInv, TokenIsFinal, InertReads, InertUntilConfigured
  <2>2. ReadsCount' /\ OpenedOnce' /\ NoneOpened' /\ OpensAddUp'
    BY <1>1, <1>3 DEF ReadInv, ReadsCount, OpenedOnce, NoneOpened, OpensAddUp, Opening, Counted
  <2> QED
    BY <2>1, <2>2 DEF ReadInv
<1>7. VisitInv'
  BY <1>1, <1>2, <1>3, VisitFrame
<1> QED
  BY <1>4, <1>5, <1>6, <1>7

-----------------------------------------------------------------------------
(* A request that counts: an unlock, or a read *)

\* It is nobody else's step, and no creation's.
LEMMA CounterIsApart ==
  ASSUME IInv, NEW o \in Counting, NEW to \in Call \cup Over, pc' = [pc EXCEPT ![o] = to],
         \/ arg' = arg
         \/ \E a : arg' = [arg EXCEPT ![o] = a]
  PROVE  /\ pc' \in [Request -> Call \cup Over] /\ pc'[o] = to
         /\ arg' = [p \in Request |-> arg'[p]]
         /\ \A p \in Request \ {o} : pc'[p] = pc[p] /\ arg'[p] = arg[p]
         /\ \A p \in Creator \cup Changer \cup Revoker : pc'[p] = pc[p] /\ arg'[p] = arg[p]
         /\ UNCHANGED <<link, raced, configured>> => LinkInv'
<1>1. /\ pc' \in [Request -> Call \cup Over] /\ pc'[o] = to
      /\ arg' = [p \in Request |-> arg'[p]]
      /\ \A p \in Request \ {o} : pc'[p] = pc[p] /\ arg'[p] = arg[p]
  BY DEF IInv, TypeOK, ArgsFit, VisitFits, Request
<1>2. \A p \in Creator \cup Changer \cup Revoker : pc'[p] = pc[p] /\ arg'[p] = arg[p]
  BY <1>1, RequestAssumption DEF Request
<1>3. ASSUME UNCHANGED <<link, raced, configured>> PROVE LinkInv'
  BY <1>2, <1>3, LinkFrame DEF IInv
<1> QED
  BY <1>1, <1>2, <1>3

\* A request that begins to read the count of a link.
LEMMA CountIsRead ==
  ASSUME IInv, NEW o \in Counting, NEW l \in Rows, ~ Opening(o),
         \A p \in Counting \ {o} : pc'[p] = pc[p] /\ arg'[p] = arg[p],
         Opening(o)' => arg'[o].link = l /\ arg'[o].row = link[l],
         crossed' = IF Crossing(o, l) THEN crossed \cup {l} ELSE crossed,
         UNCHANGED <<link, opened>>
  PROVE  ReadsCount' /\ OpensAddUp'
<1>1. \A p \in Counting \ {o} : Opening(p)' <=> Opening(p)
  BY DEF Opening
<1>2. crossed \subseteq crossed' /\ (l \notin crossed' => ~ Crossing(o, l))
  OBVIOUS
<1>3. OpensAddUp'
  BY <1>2 DEF IInv, ReadInv, OpensAddUp, Rows
<1>4. \A p \in Counting \ {o} : Opening(p) /\ arg[p].link = l => l \in crossed'
  BY DEF Crossing
<1>5. ASSUME NEW p \in Counting, Opening(p)'
      PROVE  /\ arg'[p].row.opens <= opened[arg'[p].link]
             /\ arg'[p].link \notin crossed' =>
                  /\ arg'[p].row.opens = opened[arg'[p].link]
                  /\ \A q \in Counting : Opening(q)' /\ arg'[q].link = arg'[p].link => q = p
  <2>1. CASE p = o
    <3>1. arg'[p].link = l /\ arg'[p].row = link[l]
      BY <1>5, <2>1
    <3>2. link[l].opens <= opened[l] /\ (link[l].opens < opened[l] => l \in crossed)
      BY DEF IInv, ReadInv, OpensAddUp
    <3>3. link[l].opens \in Nat /\ opened[l] \in Nat
      BY DEF IInv, TypeOK, Row, Rows
    <3>4. l \notin crossed' => \A q \in Counting : Opening(q)' /\ arg'[q].link = l => q = o
      BY <1>1, <1>4
    <3> QED
      BY <1>2, <2>1, <3>1, <3>2, <3>3, <3>4
  <2>2. CASE p # o
    <3>1. Opening(p) /\ arg'[p] = arg[p]
      BY <1>1, <1>5, <2>2
    <3>2. /\ arg[p].row.opens <= opened[arg[p].link]
          /\ arg[p].link \notin crossed =>
               /\ arg[p].row.opens = opened[arg[p].link]
               /\ \A q \in Counting : Opening(q) /\ arg[q].link = arg[p].link => q = p
      BY <3>1 DEF IInv, ReadInv, ReadsCount
    <3>3. \A q \in Counting \ {o} : Opening(q)' /\ arg'[q].link = arg[p].link
                                      => Opening(q) /\ arg[q].link = arg[p].link
      BY <1>1
    <3>4. Opening(o)' /\ arg'[o].link = arg[p].link => arg[p].link \in crossed'
      BY <1>4, <2>2, <3>1
    <3> QED
      BY <1>2, <3>1, <3>2, <3>3, <3>4
  <2> QED
    BY <2>1, <2>2
<1>6. ReadsCount'
  BY <1>5 DEF ReadsCount
<1> QED
  BY <1>3, <1>6

LEMMA BeginUnlockStep ==
  ASSUME IInv, NEW r \in Reader, BeginUnlock(r)
  PROVE  IInv'
<1> USE DEF IInv
<1>1. PICK l \in Rows :
        /\ pc[r] = "request"
        /\ arg' = [arg EXCEPT ![r] = [link |-> l, row |-> link[l], comment |-> FALSE]]
        /\ pc' = [pc EXCEPT ![r] = IF Usable(l) THEN "memoir" ELSE "refused"]
        /\ crossed' = IF Crossing(r, l) THEN crossed \cup {l} ELSE crossed
        /\ UNCHANGED <<link, policy, token, comment, raced, opened, configured, gone, on>>
  BY DEF BeginUnlock, Goto
<1>2. r \in Counting /\ r \in Request /\ Rows' = Rows /\ Live' = Live /\ link[l] \in Row
  BY <1>1 DEF Counting, Request, Rows, Live, TypeOK
<1>3. /\ pc' \in [Request -> Call \cup Over] /\ pc'[r] \in {"memoir", "refused"}
      /\ arg' = [p \in Request |-> arg'[p]]
      /\ \A p \in Request \ {r} : pc'[p] = pc[p] /\ arg'[p] = arg[p]
      /\ \A p \in Creator \cup Changer \cup Revoker : pc'[p] = pc[p] /\ arg'[p] = arg[p]
      /\ LinkInv'
  <2>1. (IF Usable(l) THEN "memoir" ELSE "refused") \in Call \cup Over
    BY DEF Call, Over
  <2> QED
    BY <1>1, <1>2, <2>1, CounterIsApart
<1>4. arg'[r] = [link |-> l, row |-> link[l], comment |-> FALSE]
  BY <1>1, <1>2 DEF ArgsFit, VisitFits
<1>5. \A v \in Visit : pc'[v] = pc[v] /\ arg'[v] = arg[v]
  BY <1>3, RequestAssumption DEF Request, Counting
<1>6. \A s \in Reader \ {r} : pc'[s] = pc[s] /\ arg'[s] = arg[s]
  BY <1>3 DEF Request, Counting
<1>7. TypeOK'
  <2>1. \A p \in Request : arg'[p] # None => arg'[p].link \in Rows
    BY <1>3, <1>4 DEF TypeOK
  <2>2. crossed' \subseteq Rows
    BY <1>1 DEF TypeOK
  <2> QED
    BY <1>1, <1>2, <1>3, <2>1, <2>2 DEF TypeOK
<1>8. ArgsFit'
  <2>1. arg'[r] \in [link : Rows, row : Row, comment : BOOLEAN]
    BY <1>2, <1>4
  <2>2. \A s \in Reader : pc'[s] \in {"memoir", "count"} =>
          arg'[s] \in [link : Rows, row : Row, comment : BOOLEAN]
    BY <1>6, <2>1 DEF ArgsFit, VisitFits
  <2>3. /\ \A o \in Changer \cup Revoker : pc'[o] = pc[o] /\ arg'[o] = arg[o]
        /\ UNCHANGED token
    BY <1>1, <1>3
  <2> QED
    BY <1>2, <1>3, <1>5, <2>2, <2>3 DEF ArgsFit, VisitFits
<1>9. ReadInv'
  <2>1. (TokenIsFinal /\ InertUntilConfigured)'
    BY <1>1, <1>6 DEF ReadInv, TokenIsFinal, InertUntilConfigured
  <2>2. InertReads'
    BY <1>1, <1>3, <1>4, <1>6 DEF ReadInv, InertReads, LinkInv, InertLinks
  <2>3. ReadsCount' /\ OpensAddUp'
    <3>1. \A p \in Counting \ {r} : pc'[p] = pc[p] /\ arg'[p] = arg[p]
      BY <1>3 DEF Request
    <3>2. ~ Opening(r)
      BY <1>1 DEF Opening
    <3> QED
      BY <1>1, <1>2, <1>4, <3>1, <3>2, CountIsRead
  <2>4. Counted' = Counted
    BY <1>1, <1>3 DEF Counted, Request
  <2>5. OpenedOnce' /\ NoneOpened'
    BY <1>1, <1>2, <2>4 DEF ReadInv, OpenedOnce, NoneOpened
  <2> QED
    BY <2>1, <2>2, <2>3, <2>5 DEF ReadInv
<1>10. VisitInv'
  BY <1>1, <1>2, <1>5, VisitFrame
<1> QED
  BY <1>3, <1>7, <1>8, <1>9, <1>10

LEMMA UnlockStep ==
  ASSUME IInv, NEW r \in Reader, Unlock(r)
  PROVE  IInv'
<1> USE DEF IInv
<1>1. /\ pc[r] = "memoir" /\ arg' = [arg EXCEPT ![r].comment = policy]
      /\ \E to \in {"count", "refused"} :
           /\ pc' = [pc EXCEPT ![r] = to]
           /\ to = "count" => Opens(arg[r].row)
      /\ UNCHANGED <<link, policy, token, comment, raced, opened, crossed, configured, gone, on>>
  BY DEF Unlock, Goto, PasswordOk, Opens, ghosts
<1>2. r \in Counting /\ r \in Request /\ Rows' = Rows /\ Live' = Live
  BY <1>1 DEF Counting, Request, Rows, Live
<1>3. /\ pc' \in [Request -> Call \cup Over] /\ pc'[r] \in {"count", "refused"}
      /\ pc'[r] = "count" => Opens(arg[r].row)
      /\ arg' = [p \in Request |-> arg'[p]]
      /\ \A p \in Request \ {r} : pc'[p] = pc[p] /\ arg'[p] = arg[p]
      /\ \A p \in Creator \cup Changer \cup Revoker : pc'[p] = pc[p] /\ arg'[p] = arg[p]
      /\ LinkInv'
  <2>1. {"count", "refused"} \subseteq Call \cup Over
    BY DEF Call, Over
  <2>2. \E a : arg' = [arg EXCEPT ![r] = a]
    BY <1>1
  <2> QED
    BY <1>1, <1>2, <2>1, <2>2, CounterIsApart
<1>4. arg[r] \in [link : Rows, row : Row, comment : BOOLEAN]
  BY <1>1 DEF ArgsFit, VisitFits
<1>5. /\ arg'[r] \in [link : Rows, row : Row, comment : BOOLEAN]
      /\ arg'[r].link = arg[r].link /\ arg'[r].row = arg[r].row
  BY <1>1, <1>2, <1>4 DEF ArgsFit, VisitFits, TypeOK
<1>6. \A v \in Visit : pc'[v] = pc[v] /\ arg'[v] = arg[v]
  BY <1>3, RequestAssumption DEF Request, Counting
<1>7. \A s \in Reader \ {r} : pc'[s] = pc[s] /\ arg'[s] = arg[s]
  BY <1>3 DEF Request, Counting
<1>8. TypeOK'
  <2>1. \A p \in Request : arg'[p] # None => arg'[p].link \in Rows
    BY <1>3, <1>5 DEF TypeOK
  <2> QED
    BY <1>1, <1>2, <1>3, <2>1 DEF TypeOK
<1>9. ArgsFit'
  BY <1>1, <1>2, <1>3, <1>5, <1>6, <1>7 DEF ArgsFit, VisitFits
<1>10. ReadInv'
  <2>1. (TokenIsFinal /\ InertUntilConfigured)'
    BY <1>1, <1>7 DEF ReadInv, TokenIsFinal, InertUntilConfigured
  <2>2. InertReads'
    BY <1>1, <1>3, <1>5, <1>7 DEF ReadInv, InertReads
  <2>3. \A p \in Counting :
          Opening(p)' => /\ Opening(p) /\ arg'[p].link = arg[p].link
                         /\ arg'[p].row = arg[p].row
    BY <1>1, <1>3, <1>5 DEF Opening, Request
  <2>4. ReadsCount'
    BY <1>1, <2>3 DEF ReadInv, ReadsCount
  <2>5. Counted' = Counted
    BY <1>1, <1>3 DEF Counted, Request
  <2>6. OpenedOnce' /\ NoneOpened' /\ OpensAddUp'
    BY <1>1, <1>2, <2>5 DEF ReadInv, OpenedOnce, NoneOpened, OpensAddUp
  <2> QED
    BY <2>1, <2>2, <2>4, <2>6 DEF ReadInv
<1>11. VisitInv'
  BY <1>1, <1>2, <1>6, VisitFrame
<1> QED
  BY <1>3, <1>8, <1>9, <1>10, <1>11

\* A link written from a count that nobody else has read gets that count, and one.
LEMMA CountStep ==
  ASSUME IInv, NEW p \in Counting, Count(p)
  PROVE  IInv'
<1> USE DEF IInv
<1> DEFINE l == arg[p].link
           n == arg[p].row.opens
           new == [link[l] EXCEPT !.opens = n + 1]
           ticket == [link |-> l, comment |-> arg[p].comment, expired |-> FALSE]
<1>1. /\ pc[p] = "count"
      /\ \E to \in {"done", "failed"} :
           /\ pc' = [pc EXCEPT ![p] = to]
           /\ \/ token' = token
              \/ p \in Reader /\ to = "done" /\ token' = [token EXCEPT ![p] = ticket]
      /\ \/ link' = link /\ opened' = opened
         \/ /\ link' = [link EXCEPT ![l] = new]
            /\ opened' = [opened EXCEPT ![l] = @ + 1]
      /\ UNCHANGED <<policy, comment, arg, raced, crossed, configured, gone, on>>
  BY DEF Count, Goto, Then, Plus
<1>2. p \in Request /\ Opening(p)
  BY <1>1 DEF Request, Opening
<1>3. l \in Rows /\ arg[p].row \in Row /\ link[l] \in Row /\ l \in Link
  <2>1. l \in Rows /\ arg[p].row \in Row
    <3>1. CASE p \in Reader
      BY <1>1, <3>1 DEF ArgsFit, VisitFits
    <3>2. CASE p \in Visit
      BY <1>1, <3>2 DEF ArgsFit, VisitFits
    <3> QED
      BY <3>1, <3>2 DEF Counting
  <2> HIDE DEF l
  <2> QED
    BY <2>1 DEF TypeOK, Rows
<1>4. n \in Nat /\ opened[l] \in Nat /\ MaxOpens \in Nat
  BY <1>3, RequestAssumption, FS_CardinalityType DEF TypeOK, Row, MaxOpens
<1>5. /\ n <= opened[l]
      /\ l \notin crossed =>
           n = opened[l] /\ \A q \in Counting : Opening(q) /\ arg[q].link = l => q = p
  BY <1>2 DEF ReadInv, ReadsCount
<1>6. /\ pc' \in [Request -> Call \cup Over] /\ pc'[p] \in {"done", "failed"}
      /\ \A q \in Request \ {p} : pc'[q] = pc[q]
      /\ \A q \in Creator \cup Changer \cup Revoker : pc'[q] = pc[q]
  <2>1. {"done", "failed"} \subseteq Call \cup Over
    BY DEF Over
  <2> QED
    BY <1>1, <2>1, CounterIsApart
<1>7. \A k \in Link : opened[k] + (IF k = l THEN 1 ELSE 0) <= Cardinality(Counted')
                   /\ Cardinality(Counted') <= MaxOpens /\ Cardinality(Counted') \in Nat
  <2>1. Counted' = Counted \cup {p} /\ p \notin Counted
    BY <1>1, <1>6 DEF Counted, Request
  <2>2. Counted \subseteq Counting
    BY DEF Counted
  <2>3. IsFiniteSet(Counted)
    BY <2>2, RequestAssumption, FS_Subset
  <2>4. Cardinality(Counted') = Cardinality(Counted) + 1
    BY <2>1, <2>3, FS_AddElement
  <2>5. \A q \in Counting : pc[q] \in {"done", "failed"} => pc'[q] \in {"done", "failed"}
    BY <1>6 DEF Request
  <2>6. \A k \in Link : opened[k] \in Nat /\ opened[k] <= Cardinality(Counted)
    BY DEF TypeOK, ReadInv, OpenedOnce
  <2> QED
    BY <2>4, <2>5, <2>6, CountedGrows
<1>8. /\ link' \in [Link -> Row \cup {None}] /\ Rows' = Rows /\ Live' = Live
      /\ \A k \in Rows : /\ link'[k].revoked = link[k].revoked
                         /\ Opens(link'[k]) <=> Opens(link[k])
      /\ \A k \in Link \ {l} : link'[k] = link[k] /\ opened'[k] = opened[k]
      /\ opened' \in [Link -> 0 .. MaxOpens]
      /\ \/ link'[l] = link[l] /\ opened'[l] = opened[l]
         \/ link'[l].opens = n + 1 /\ opened'[l] = opened[l] + 1
  <2>1. CASE link' = link /\ opened' = opened
    BY <2>1 DEF TypeOK, Rows, Live
  <2>2. CASE /\ link' = [link EXCEPT ![l] = new]
             /\ opened' = [opened EXCEPT ![l] = @ + 1]
    <3>1. opened[l] + 1 <= MaxOpens
      BY <1>3, <1>4, <1>7
    <3>2. n + 1 \in 0 .. MaxOpens /\ opened[l] + 1 \in 0 .. MaxOpens
      BY <1>4, <1>5, <3>1
    <3>3. /\ new \in Row /\ new # None /\ new.opens = n + 1 /\ new.revoked = link[l].revoked
          /\ Opens(new) <=> Opens(link[l])
      <4>1. new \in Row /\ new.opens = n + 1 /\ new.revoked = link[l].revoked
        BY <1>3, <3>2 DEF Row
      <4>2. Opens(new) <=> Opens(link[l])
        BY <1>3 DEF Row, Opens
      <4> QED
        BY <4>1, <4>2, RequestAssumption
    <3> HIDE DEF new, n, l
    <3>4. /\ link' \in [Link -> Row \cup {None}] /\ link'[l] = new
          /\ \A k \in Link \ {l} : link'[k] = link[k]
      BY <1>3, <2>2, <3>3 DEF TypeOK
    <3>5. /\ opened' \in [Link -> 0 .. MaxOpens] /\ opened'[l] = opened[l] + 1
          /\ \A k \in Link \ {l} : opened'[k] = opened[k]
      BY <1>3, <2>2, <3>2 DEF TypeOK
    <3>6. Rows' = Rows
      BY <1>3, <3>3, <3>4 DEF Rows
    <3>7. \A k \in Rows : /\ link'[k].revoked = link[k].revoked
                          /\ Opens(link'[k]) <=> Opens(link[k])
      BY <3>3, <3>4 DEF Rows
    <3>8. Live' = Live
      BY <3>6, <3>7, LiveFrame
    <3> QED
      BY <3>3, <3>4, <3>5, <3>6, <3>7, <3>8
  <2> QED
    BY <1>1, <2>1, <2>2
<1>9. /\ token' \in [Reader -> Token \cup {None}]
      /\ \A r \in Reader : token[r] # None => token'[r] = token[r]
      /\ \A r \in Reader : token'[r] # None => token[r] # None \/
              (r = p /\ pc'[r] = "done" /\ token'[r].link \in configured)
  <2>1. CASE token' = token
    BY <2>1 DEF TypeOK
  <2>2. CASE p \in Reader /\ pc'[p] = "done" /\ token' = [token EXCEPT ![p] = ticket]
    <3>1. token[p] = None /\ l \in configured /\ arg[p].comment \in BOOLEAN
      BY <1>1, <2>2 DEF ReadInv, TokenIsFinal, InertReads, ArgsFit, VisitFits
    <3>2. ticket \in Token /\ ticket.link = l
      BY <1>3, <3>1 DEF Token
    <3> HIDE DEF ticket, l
    <3> QED
      BY <2>2, <3>1, <3>2 DEF TypeOK
  <2> QED
    BY <1>1, <1>2, <2>1, <2>2 DEF TypeOK
<1> HIDE DEF l, n, new, ticket
<1>10. TypeOK'
  BY <1>1, <1>6, <1>8, <1>9 DEF TypeOK
<1>11. ArgsFit'
  <2>1. \A q \in Counting : pc'[q] \in {"memoir", "count"} => pc[q] = pc'[q]
    BY <1>6 DEF Request
  <2>2. \A v \in Visit : pc'[v] # "request" => pc[v] # "request"
    BY <1>1, <1>6 DEF Request, Counting
  <2>3. \A v \in Visit : pc[v] # "request" => token'[arg[v].reader] # None
    BY <1>9, RequestAssumption DEF ArgsFit, VisitFits
  <2>4. \A r \in Reader : pc'[r] \in {"memoir", "count"} =>
          arg'[r] \in [link : Rows', row : Row, comment : BOOLEAN]
    BY <1>1, <1>8, <2>1 DEF ArgsFit, VisitFits, Counting
  <2>5. \A v \in Visit : pc'[v] # "request" =>
          /\ arg'[v].link \in Rows' /\ arg'[v].row \in Row /\ arg'[v].reader \in Reader
          /\ token'[arg'[v].reader] # None /\ arg'[v].kind \in Kind
    BY <1>1, <1>8, <2>2, <2>3 DEF ArgsFit, VisitFits
  <2> QED
    BY <1>1, <1>6, <1>8, <2>4, <2>5 DEF ArgsFit, VisitFits
<1>12. LinkInv'
  <2>1. InertLinks'
    <3>1. \A k \in Rows : Opens(link'[k]) => Opens(link[k])
      BY <1>8
    <3>2. Rows' = Rows /\ UNCHANGED configured
      BY <1>1, <1>8
    <3> QED
      BY <3>1, <3>2 DEF LinkInv, InertLinks
  <2>2. \A c \in Creator : link[c] = None => link'[c] = None
    BY <1>3, <1>8 DEF Rows, Link
  <2>3. LinkIsNew'
    BY <1>6, <2>2 DEF LinkInv, LinkIsNew
  <2>4. OneLive'
    BY <1>1, <1>6, <1>8 DEF LinkInv, OneLive
  <2> QED
    BY <2>1, <2>3, <2>4 DEF LinkInv
<1>13. ReadInv'
  <2>1. (TokenIsFinal /\ InertUntilConfigured)'
    <3>1. \A r \in Reader : token[r] # None => pc'[r] = "done"
      BY <1>1, <1>6 DEF ReadInv, TokenIsFinal, Request, Counting
    <3> QED
      BY <1>1, <1>9, <3>1 DEF ReadInv, TokenIsFinal, InertUntilConfigured
  <2>2. \A q \in Counting : Opening(q)' => q # p /\ Opening(q) /\ arg'[q] = arg[q]
    BY <1>1, <1>6 DEF Opening, Request
  <2>3. InertReads'
    BY <1>1, <1>6 DEF ReadInv, InertReads, Request, Counting
  <2>4. ReadsCount'
    <3> SUFFICES ASSUME NEW q \in Counting, Opening(q)'
                 PROVE  LET k == arg[q].link IN
                        /\ arg[q].row.opens <= opened'[k]
                        /\ k \notin crossed =>
                             /\ arg[q].row.opens = opened'[k]
                             /\ \A o \in Counting : Opening(o)' /\ arg[o].link = k => o = q
      BY <1>1 DEF ReadsCount
    <3>1. q # p /\ Opening(q)
      BY <2>2
    <3>2. /\ arg[q].row.opens <= opened[arg[q].link]
          /\ arg[q].link \notin crossed =>
               /\ arg[q].row.opens = opened[arg[q].link]
               /\ \A o \in Counting : Opening(o) /\ arg[o].link = arg[q].link => o = q
      BY <3>1 DEF ReadInv, ReadsCount
    <3>3. arg[q].link \in Link /\ arg[q].row.opens \in Nat
      BY <3>1 DEF ArgsFit, VisitFits, Opening, Counting, Row, Rows
    <3>4. CASE arg[q].link # l
      BY <1>8, <2>2, <3>2, <3>3, <3>4
    <3>5. CASE arg[q].link = l
      <4>1. l \in crossed
        BY <1>2, <3>1, <3>2, <3>5, <1>5
      <4>2. opened'[l] \in Nat /\ opened[l] <= opened'[l]
        BY <1>4, <1>8
      <4> QED
        BY <1>4, <3>2, <3>3, <3>5, <4>1, <4>2
    <3> QED
      BY <3>4, <3>5
  <2>5. OpenedOnce'
    BY <1>3, <1>4, <1>7, <1>8 DEF OpenedOnce, TypeOK
  <2>6. NoneOpened' /\ OpensAddUp'
    <3>1. NoneOpened'
      BY <1>3, <1>8 DEF ReadInv, NoneOpened
    <3>2. /\ link'[l].opens <= opened'[l]
          /\ link'[l].opens < opened'[l] => l \in crossed
      BY <1>3, <1>4, <1>5, <1>8 DEF ReadInv, OpensAddUp
    <3> QED
      BY <1>1, <1>8, <3>1, <3>2 DEF ReadInv, OpensAddUp, Rows
  <2> QED
    BY <2>1, <2>3, <2>4, <2>5, <2>6 DEF ReadInv
<1>14. VisitInv'
  <2>1. \A v \in Visit : /\ arg'[v] = arg[v]
                         /\ pc'[v] = pc[v] \/ (pc[v] = "count" /\ pc'[v] \in {"done", "failed"})
    BY <1>1, <1>6 DEF Request, Counting
  <2> QED
    BY <1>1, <1>8, <1>9, <2>1, VisitFrame
<1> QED
  BY <1>10, <1>11, <1>12, <1>13, <1>14

-----------------------------------------------------------------------------
(* The visits *)

\* A step of one visit, for which the properties of that visit are left to show.
LEMMA VisitStep ==
  ASSUME IInv, NEW v \in Visit, NEW to \in Call \cup Over, pc' = [pc EXCEPT ![v] = to],
         \/ arg' = arg
         \/ \E a : arg' = [arg EXCEPT ![v] = a],
         pc[v] \notin {"done", "failed"} \/ pc'[v] = pc[v],
         arg'[v] # None => arg'[v].link \in Rows,
         UNCHANGED <<link, policy, token, raced, opened, configured>>,
         crossed' \subseteq Rows, comment' \in [Visit -> Comment \cup {None}],
         gone' \in [Visit -> SUBSET Rows], on \subseteq on', on' \subseteq Visit,
         \A w \in Visit \ {v} : comment'[w] = comment[w] /\ gone'[w] = gone[w],
         VisitFits(v)', LiveVisit(v)', PolicyNoted(v)',
         (to # "count" /\ UNCHANGED crossed) \/ (ReadsCount' /\ OpensAddUp')
  PROVE  IInv'
<1> USE DEF IInv
<1>1. v \in Counting /\ v \in Request /\ v \notin Reader /\ Rows' = Rows /\ Live' = Live
  BY RequestAssumption DEF Counting, Request, Rows, Live
<1>2. /\ pc' \in [Request -> Call \cup Over] /\ pc'[v] = to
      /\ arg' = [p \in Request |-> arg'[p]]
      /\ \A p \in Request \ {v} : pc'[p] = pc[p] /\ arg'[p] = arg[p]
      /\ \A p \in Creator \cup Changer \cup Revoker : pc'[p] = pc[p] /\ arg'[p] = arg[p]
      /\ LinkInv'
  BY <1>1, CounterIsApart
<1>3. \A r \in Reader : pc'[r] = pc[r] /\ arg'[r] = arg[r]
  BY <1>1, <1>2 DEF Request, Counting
<1>4. \A w \in Visit \ {v} : pc'[w] = pc[w] /\ arg'[w] = arg[w]
  BY <1>2 DEF Request, Counting
<1>5. TypeOK'
  <2>1. \A p \in Request : arg'[p] # None => arg'[p].link \in Rows
    BY <1>2 DEF TypeOK
  <2> QED
    BY <1>1, <1>2, <2>1 DEF TypeOK
<1>6. ArgsFit'
  <2>1. ASSUME NEW w \in Visit PROVE VisitFits(w)'
    <3>1. CASE w = v
      BY <3>1
    <3>2. CASE w # v
      BY <1>1, <1>4, <3>2 DEF ArgsFit, VisitFits
    <3> QED
      BY <3>1, <3>2
  <2>2. \A o \in Changer \cup Revoker : pc'[o] = pc[o] /\ arg'[o] = arg[o]
    BY <1>2
  <2>3. arg' = [p \in Request |-> arg'[p]]
    BY <1>2
  <2>4. ArgsFit
    OBVIOUS
  <2>5. \A u \in Changer : pc'[u] \in {"policy", "change"} =>
          /\ arg'[u].link \in Rows' /\ arg'[u].change \in Change
          /\ pc'[u] = "policy" => arg'[u].change.policy # None
    BY <1>1, <2>2, <2>4 DEF ArgsFit
  <2>6. \A x \in Revoker : pc'[x] = "revoke" => arg'[x].link \in Rows'
    BY <1>1, <2>2, <2>4 DEF ArgsFit
  <2>7. \A r \in Reader : pc'[r] \in {"memoir", "count"} =>
          arg'[r] \in [link : Rows', row : Row, comment : BOOLEAN]
    BY <1>1, <1>3, <2>4 DEF ArgsFit
  <2> QED
    BY <2>1, <2>3, <2>5, <2>6, <2>7 DEF ArgsFit
<1>7. ReadInv'
  <2>1. CASE to # "count" /\ UNCHANGED crossed
    BY <1>2, <1>3, <1>4, <2>1, ReadFrame
  <2>2. CASE ReadsCount' /\ OpensAddUp'
    <3>1. (TokenIsFinal /\ InertReads /\ InertUntilConfigured)'
      BY <1>3 DEF ReadInv, TokenIsFinal, InertReads, InertUntilConfigured
    <3>2. NoneOpened'
      BY <1>1 DEF ReadInv, NoneOpened
    <3>3. \A p \in Counting : pc[p] \in {"done", "failed"} => pc'[p] \in {"done", "failed"}
      BY <1>2 DEF Request
    <3>4. \A l \in Link : opened[l] \in Nat /\ opened'[l] = opened[l]
      BY DEF TypeOK
    <3>5. OpenedOnce'
      BY <3>3, <3>4, CountedGrows DEF ReadInv, OpenedOnce
    <3> QED
      BY <2>2, <3>1, <3>2, <3>5 DEF ReadInv
  <2> QED
    BY <2>1, <2>2
<1>8. VisitInv'
  <2>1. ASSUME NEW w \in Visit PROVE LiveVisit(w)' /\ PolicyNoted(w)'
    <3>1. CASE w = v
      BY <3>1
    <3>2. CASE w # v
      <4>1. LiveVisit(w)'
        BY <1>1, <1>4, <3>2 DEF VisitInv, LiveVisits, LiveVisit, Shared
      <4>2. PolicyNoted(w)'
        BY <1>4, <3>2 DEF VisitInv, PolicyIsNoted, PolicyNoted, Visiting
      <4> QED
        BY <4>1, <4>2
    <3> QED
      BY <3>1, <3>2
  <2> QED
    BY <2>1 DEF VisitInv, LiveVisits, PolicyIsNoted, LiveVisit, PolicyNoted
<1> QED
  BY <1>2, <1>5, <1>6, <1>7, <1>8

\* A visit that arrives: at work only with a link that is alive.
LEMMA ArriveStep ==
  ASSUME IInv, NEW v \in Visit, NEW r \in Reader, NEW l \in Rows, NEW kind \in Kind,
         NEW to \in {"memoir", "count", "insert", "done", "refused"},
         Arrive(v, r, l, kind), pc' = [pc EXCEPT ![v] = to],
         to # "refused" /\ kind \notin TokenOnly => Usable(l),
         to \in {"count", "insert"} => token[r].link = l,
         to = "insert" => kind = "dual",
         to = "done" => kind \in TokenOnly,
         (to # "count" /\ UNCHANGED crossed)
         \/ crossed' = IF Crossing(v, l) THEN crossed \cup {l} ELSE crossed
  PROVE  IInv'
<1> USE DEF IInv
<1> DEFINE a == [link |-> l, row |-> link[l], reader |-> r, kind |-> kind]
<1>1. /\ pc[v] = "request" /\ token[r] # None /\ arg' = [arg EXCEPT ![v] = a]
      /\ gone' = [gone EXCEPT ![v] = Rows \ Live]
      /\ on' = IF policy THEN on \cup {v} ELSE on
      /\ UNCHANGED <<link, policy, token, comment, raced, opened, configured>>
  BY DEF Arrive
<1>2. v \in Counting /\ v \in Request /\ v \notin Reader /\ Rows' = Rows /\ Live' = Live
  BY <1>1, RequestAssumption DEF Counting, Request, Rows, Live
<1>3. link[l] \in Row /\ (Usable(l) => l \in Live)
  BY DEF TypeOK, Rows, Live, Usable
<1>4. to \in Call \cup Over
  BY DEF Call, Over
<1>5. pc'[v] = to /\ gone'[v] = Rows \ Live
  BY <1>1, <1>2 DEF TypeOK
<1>6. /\ arg'[v].link = l /\ arg'[v].row = link[l] /\ arg'[v].reader = r
      /\ arg'[v].kind = kind
  BY <1>1, <1>2 DEF ArgsFit, VisitFits
<1>7. VisitFits(v)'
  BY <1>1, <1>2, <1>3, <1>6 DEF VisitFits
<1>8. LiveVisit(v)'
  BY <1>1, <1>2, <1>3, <1>5, <1>6 DEF LiveVisit, Shared
<1>9. PolicyNoted(v)'
  BY <1>1, <1>5, <1>6 DEF PolicyNoted, Visiting, Call, VisitInv, PolicyIsNoted
<1>10. /\ on \subseteq on' /\ on' \subseteq Visit /\ gone' \in [Visit -> SUBSET Rows]
       /\ comment' \in [Visit -> Comment \cup {None}] /\ crossed' \subseteq Rows
       /\ \A w \in Visit \ {v} : comment'[w] = comment[w] /\ gone'[w] = gone[w]
  BY <1>1 DEF TypeOK
<1>11. (to # "count" /\ UNCHANGED crossed) \/ (ReadsCount' /\ OpensAddUp')
  <2>1. CASE crossed' = IF Crossing(v, l) THEN crossed \cup {l} ELSE crossed
    <3>1. ~ Opening(v)
      BY <1>1, <1>2 DEF Opening
    <3>2. \A p \in Counting \ {v} : pc'[p] = pc[p] /\ arg'[p] = arg[p]
      BY <1>1 DEF TypeOK, ArgsFit, VisitFits, Request
    <3> QED
      BY <1>1, <1>2, <1>6, <2>1, <3>1, <3>2, CountIsRead
  <2> QED
    BY <2>1
<1> HIDE DEF a
<1> QED
  BY <1>1, <1>4, <1>5, <1>6, <1>7, <1>8, <1>9, <1>10, <1>11, VisitStep

LEMMA BeginVisitStep ==
  ASSUME IInv, NEW v \in Visit, BeginVisit(v)
  PROVE  IInv'
<1>1. PICK r \in Reader, l \in Rows, kind \in {"page", "post"} :
        /\ Arrive(v, r, l, kind)
        /\ Goto(v, IF ~ token[r].expired /\ Usable(l) THEN "memoir" ELSE "refused")
        /\ UNCHANGED crossed
  BY DEF BeginVisit
<1>2. /\ kind \in Kind /\ kind \notin TokenOnly
      /\ \E to \in {"memoir", "refused"} :
           pc' = [pc EXCEPT ![v] = to] /\ (to # "refused" => Usable(l))
  BY <1>1 DEF Goto, Kind, TokenOnly
<1> QED
  BY <1>1, <1>2, ArriveStep

LEMMA BeginReadStep ==
  ASSUME IInv, NEW v \in Visit, BeginRead(v)
  PROVE  IInv'
<1>1. PICK r \in Reader, l \in Rows :
        /\ Arrive(v, r, l, "read")
        /\ Goto(v, IF Usable(l) /\ ~ token[r].expired /\ OfThisLink(token[r], l)
                     THEN "count" ELSE "refused")
        /\ crossed' = IF Crossing(v, l) THEN crossed \cup {l} ELSE crossed
  BY DEF BeginRead
<1>2. /\ "read" \in Kind
      /\ \E to \in {"count", "refused"} :
           pc' = [pc EXCEPT ![v] = to] /\ (to # "refused" => Usable(l) /\ token[r].link = l)
  BY <1>1 DEF Goto, Kind, TokenOnly, OfThisLink
<1> QED
  BY <1>1, <1>2, ArriveStep

LEMMA BeginShowStep ==
  ASSUME IInv, NEW v \in Visit, BeginShow(v)
  PROVE  IInv'
<1>1. PICK r \in Reader :
        /\ token[r] # None
        /\ Arrive(v, r, token[r].link, "show")
        /\ Goto(v, IF token[r].expired THEN "refused" ELSE "done")
        /\ UNCHANGED crossed
  BY DEF BeginShow
<1>2. token[r].link \in Rows
  BY <1>1 DEF IInv, ReadInv, InertUntilConfigured, TypeOK
<1>3. /\ "show" \in Kind
      /\ \E to \in {"done", "refused"} : pc' = [pc EXCEPT ![v] = to]
  BY <1>1 DEF Goto, Kind, TokenOnly
<1> QED
  BY <1>1, <1>2, <1>3, ArriveStep DEF TokenOnly

LEMMA BeginDualStep ==
  ASSUME IInv, NEW v \in Visit, BeginDual(v)
  PROVE  IInv'
<1>1. PICK r \in Reader :
        /\ token[r] # None
        /\ Arrive(v, r, token[r].link, "dual")
        /\ Goto(v, IF ~ token[r].expired /\ token[r].comment THEN "insert" ELSE "refused")
        /\ UNCHANGED crossed
  BY DEF BeginDual
<1>2. token[r].link \in Rows
  BY <1>1 DEF IInv, ReadInv, InertUntilConfigured, TypeOK
<1>3. /\ "dual" \in Kind
      /\ \E to \in {"insert", "refused"} : pc' = [pc EXCEPT ![v] = to]
  BY <1>1 DEF Goto, Kind, TokenOnly
<1> QED
  BY <1>1, <1>2, <1>3, ArriveStep DEF TokenOnly

LEMMA ResolveStep ==
  ASSUME IInv, NEW v \in Visit, Resolve(v)
  PROVE  IInv'
<1> USE DEF IInv
<1>1. /\ pc[v] = "memoir"
      /\ \E to \in {"refused", "done", "insert"} :
           /\ pc' = [pc EXCEPT ![v] = to]
           /\ to # "refused" => token[arg[v].reader].link = arg[v].link
           /\ to = "insert" => policy
      /\ UNCHANGED <<link, policy, token, comment, arg, raced, opened, crossed, configured, gone, on>>
  BY DEF Resolve, Goto, OfThisLink, CanComment, ghosts
<1>2. /\ v \in Request /\ Rows' = Rows /\ Live' = Live
      /\ pc'[v] \in {"refused", "done", "insert"}
      /\ pc'[v] # "refused" => token[arg[v].reader].link = arg[v].link
      /\ pc'[v] = "insert" => policy
  BY <1>1 DEF Request, Counting, Rows, Live, TypeOK
<1>3. VisitFits(v)'
  BY <1>1, <1>2 DEF VisitFits, ArgsFit
<1>4. LiveVisit(v)'
  BY <1>1, <1>2 DEF LiveVisit, VisitInv, LiveVisits, Shared
<1>5. PolicyNoted(v)'
  BY <1>1, <1>2 DEF PolicyNoted, VisitInv, PolicyIsNoted, Visiting, Call
<1>6. \E to \in Call \cup Over : to # "count" /\ pc' = [pc EXCEPT ![v] = to]
  BY <1>1 DEF Call, Over
<1>7. /\ crossed' \subseteq Rows /\ comment' \in [Visit -> Comment \cup {None}]
      /\ gone' \in [Visit -> SUBSET Rows] /\ on' \subseteq Visit
      /\ arg'[v] # None => arg'[v].link \in Rows
  BY <1>1, <1>2 DEF TypeOK
<1> QED
  BY <1>1, <1>3, <1>4, <1>5, <1>6, <1>7, VisitStep

LEMMA InsertCommentStep ==
  ASSUME IInv, NEW v \in Visit, InsertComment(v)
  PROVE  IInv'
<1> USE DEF IInv
<1> DEFINE new == [hidden |-> FALSE, deleted |-> FALSE]
<1>1. /\ pc[v] = "insert" /\ \E to \in {"done", "failed"} : pc' = [pc EXCEPT ![v] = to]
      /\ comment' = comment \/ comment' = [comment EXCEPT ![v] = new]
      /\ UNCHANGED <<link, policy, token, arg, raced, opened, crossed, configured, gone, on>>
  BY DEF InsertComment, Goto, Then, ghosts
<1>2. /\ v \in Request /\ Rows' = Rows /\ Live' = Live /\ pc'[v] \in {"done", "failed"}
  BY <1>1 DEF Request, Counting, Rows, Live, TypeOK
<1>3. /\ comment' \in [Visit -> Comment \cup {None}]
      /\ \A w \in Visit \ {v} : comment'[w] = comment[w]
  <2>1. new \in Comment
    BY DEF Comment
  <2> HIDE DEF new
  <2> QED
    BY <1>1, <2>1 DEF TypeOK
<1>4. VisitFits(v)'
  BY <1>1, <1>2 DEF VisitFits, ArgsFit
<1>5. LiveVisit(v)'
  BY <1>1, <1>2 DEF LiveVisit, VisitInv, LiveVisits, Shared
<1>6. PolicyNoted(v)'
  BY <1>1, <1>2 DEF PolicyNoted, VisitInv, PolicyIsNoted, Visiting, Call
<1>7. \E to \in Call \cup Over : to # "count" /\ pc' = [pc EXCEPT ![v] = to]
  BY <1>1 DEF Call, Over
<1>8. /\ crossed' \subseteq Rows /\ gone' \in [Visit -> SUBSET Rows] /\ on' \subseteq Visit
      /\ arg'[v] # None => arg'[v].link \in Rows
  BY <1>1, <1>2 DEF TypeOK
<1> QED
  BY <1>1, <1>3, <1>4, <1>5, <1>6, <1>7, <1>8, VisitStep

\* A moderation leaves a comment one.
LEMMA ModerateStep ==
  ASSUME IInv, NEW v \in Visit, Moderate(v)
  PROVE  IInv'
<1> USE DEF IInv
<1>1. /\ comment[v] # None
      /\ \E new \in {[comment[v] EXCEPT !.hidden = TRUE], [comment[v] EXCEPT !.deleted = TRUE]} :
           comment' = [comment EXCEPT ![v] = new]
      /\ UNCHANGED <<link, policy, token, pc, arg, raced, opened, crossed, configured, gone, on>>
  BY DEF Moderate, ghosts
<1>2. /\ comment' \in [Visit -> Comment \cup {None}]
      /\ \A w \in Visit : comment'[w] # None => comment[w] # None
      /\ \A w \in Visit : comment[w] = None => comment'[w] = None
  <2>1. comment[v] \in Comment
    BY <1>1 DEF TypeOK
  <2>2. \E new \in Comment : comment' = [comment EXCEPT ![v] = new]
    BY <1>1, <2>1 DEF Comment
  <2> QED
    BY <1>1, <2>2 DEF TypeOK
<1>3. Rows' = Rows /\ Live' = Live
  BY <1>1 DEF Rows, Live
<1>4. TypeOK' /\ ArgsFit'
  BY <1>1, <1>2, <1>3 DEF TypeOK, ArgsFit, VisitFits
<1>5. LinkInv'
  BY <1>1, LinkFrame
<1>6. ReadInv'
  BY <1>1, ReadFrame
<1>7. LiveVisits'
  BY <1>1, <1>3 DEF VisitInv, LiveVisits, LiveVisit, Shared
<1>8. PolicyIsNoted'
  BY <1>1, <1>2 DEF VisitInv, PolicyIsNoted, PolicyNoted, Visiting
<1> QED
  BY <1>4, <1>5, <1>6, <1>7, <1>8 DEF VisitInv

-----------------------------------------------------------------------------
(* The theorems *)

LEMMA StepIInv == IInv /\ [Next]_vars => IInv'
<1> SUFFICES ASSUME IInv, [Next]_vars PROVE IInv'
  OBVIOUS
<1>1. CASE \E c \in Creator : Get(c) \/ InsertLink(c)
  BY <1>1, GetStep, InsertLinkStep
<1>2. CASE \E u \in Changer : BeginChange(u) \/ ChangePolicy(u) \/ ChangeLink(u)
  BY <1>2, BeginChangeStep, ChangePolicyStep, ChangeLinkStep
<1>3. CASE \E x \in Revoker : BeginRevoke(x) \/ Revoke(x)
  BY <1>3, BeginRevokeStep, RevokeStep
<1>4. CASE \E r \in Reader : BeginUnlock(r) \/ Unlock(r) \/ TokenExpires(r)
  BY <1>4, BeginUnlockStep, UnlockStep, TokenExpiresStep
<1>5. CASE \E p \in Counting : Count(p)
  BY <1>5, CountStep
<1>6. CASE \E v \in Visit : BeginVisit(v) \/ Resolve(v) \/ BeginRead(v) \/ BeginShow(v)
                           \/ BeginDual(v) \/ InsertComment(v) \/ Moderate(v)
  BY <1>6, BeginVisitStep, ResolveStep, BeginReadStep, BeginShowStep, BeginDualStep,
     InsertCommentStep, ModerateStep
<1>7. CASE \E l \in Link : LinkExpires(l)
  BY <1>7, LinkExpiresStep
<1>8. CASE UNCHANGED vars
  <2>1. UNCHANGED <<link, policy, token, comment, pc, arg, raced, opened, crossed, configured,
                    gone, on>>
    BY <1>8 DEF vars, ghosts
  <2>2. Rows' = Rows /\ Live' = Live
    BY <2>1 DEF Rows, Live
  <2>3. TypeOK' /\ ArgsFit'
    BY <2>1, <2>2 DEF IInv, TypeOK, ArgsFit, VisitFits
  <2>4. LinkInv'
    BY <2>1, LinkFrame DEF IInv
  <2>5. ReadInv'
    BY <2>1, ReadFrame DEF IInv
  <2>6. VisitInv'
    BY <2>1, <2>2, VisitFrame DEF IInv
  <2> QED
    BY <2>3, <2>4, <2>5, <2>6 DEF IInv
<1> QED
  BY <1>1, <1>2, <1>3, <1>4, <1>5, <1>6, <1>7, <1>8 DEF Next

LEMMA Invariance == Spec => []IInv
BY InitIInv, StepIInv, PTL DEF Spec

\* The lock that create_or_get_share_link does not take matters only where two of
\* them meet: any number of creations, changes, revocations and unlocks, in any
\* order and with any call of theirs failing, leaves a memoir one live link; and a
\* token is for a link its owner has configured.
THEOREM LinksSafety == Spec => []LinksAreSound
<1>1. IInv => LinksAreSound
  <2> SUFFICES ASSUME IInv PROVE LinksRaced
    BY DEF LinksAreSound, IInv, ReadInv
  <2> SUFFICES ASSUME ~ raced PROVE ~ Cardinality(Live) > 1
    BY DEF LinksRaced, IInv, TypeOK
  <2>1. \A l, m \in Live : l = m
    BY DEF IInv, LinkInv, OneLive
  <2>2. CASE Live = {}
    BY <2>2, FS_EmptySet
  <2>3. CASE \E l \in Live : Live = {l}
    BY <2>3, FS_Singleton
  <2> QED
    BY <2>1, <2>2, <2>3
<1> QED
  BY <1>1, Invariance, PTL

\* What a reader saw or wrote under /api/share: the link the token is for had not
\* been revoked before the request came, for get_share_context and
\* read_shared_memoir look it up again, and a comment was allowed at some moment
\* of the request, for resolve_memoir_access asks the memoir.
THEOREM VisitSafety == Spec => []VisitWasAllowed
<1>1. IInv => VisitWasAllowed
  BY DEF IInv, VisitInv, LiveVisits, LiveVisit, PolicyIsNoted, PolicyNoted, Shared,
     VisitWasAllowed, RevokedIsNextRequest, CommentsWereOn
<1> QED
  BY <1>1, Invariance, PTL

\* increment_open_count writes what was read, and one: no opening is lost but of a
\* link that two requests were counting at once, and none is ever counted twice.
THEOREM OpensSafety == Spec => []OpensAddUp
<1>1. IInv => OpensAddUp
  BY DEF IInv, ReadInv
<1> QED
  BY <1>1, Invariance, PTL

-----------------------------------------------------------------------------
(* What leaves the archive: exports and pages *)

-----------------------------------------------------------------------------
(* The attribution line *)

\* A set of numbers that is not empty has a least one: of the sets 1 .. i, for i in
\* it, one is smallest.
LEMMA LeastExists ==
  ASSUME NEW I \in SUBSET Nat, I # {}
  PROVE  Min(I) \in I
<1>1. PICK n \in I : TRUE
  OBVIOUS
<1> DEFINE Below == {1 .. i : i \in {j \in I : j <= n}}
<1>2. IsFiniteSet(1 .. n)
  BY FS_Interval
<1>3. IsWellFoundedOn(StrictSubsetOrdering(1 .. n), FiniteSubsetsOf(1 .. n))
  BY <1>2, FS_StrictSubsetOrderingWellFounded
<1>4. Below \subseteq FiniteSubsetsOf(1 .. n) /\ Below # {}
  <2>1. ASSUME NEW i \in I, i <= n PROVE 1 .. i \in FiniteSubsetsOf(1 .. n)
    <3>1. 1 .. i \in SUBSET (1 .. n)
      BY <2>1
    <3> QED
      BY <1>2, <3>1, FS_Subset DEF FiniteSubsetsOf
  <2>2. 1 .. n \in Below
    BY <1>1
  <2> QED
    BY <2>1, <2>2
<1>5. PICK T \in Below : \A U \in Below : ~ (<<U, T>> \in StrictSubsetOrdering(1 .. n))
  <2> HIDE DEF Below
  <2> QED
    BY <1>3, <1>4, WFMin
<1>6. PICK i \in I : i <= n /\ T = 1 .. i
  OBVIOUS
<1>7. ASSUME NEW k \in I PROVE i <= k
  <2>1. ASSUME k < i PROVE FALSE
    <3>1. 1 .. k \in Below
      BY <1>1, <1>6, <2>1
    <3>2. 1 .. k \subseteq 1 .. i /\ i \in 1 .. i /\ i \notin 1 .. k /\ 1 .. i \subseteq 1 .. n
      BY <1>1, <1>6, <2>1
    <3>3. <<1 .. k, 1 .. i>> \in StrictSubsetOrdering(1 .. n)
      <4>1. 1 .. k \in SUBSET (1 .. n) /\ 1 .. i \in SUBSET (1 .. n) /\ 1 .. k # 1 .. i
        BY <3>2
      <4> HIDE DEF Below
      <4> QED
        BY <3>2, <4>1 DEF StrictSubsetOrdering
    <3> QED
      BY <1>5, <1>6, <3>1, <3>3
  <2> QED
    BY <2>1
<1>8. \E x \in I : \A y \in I : x <= y
  BY <1>7
<1> QED
  BY <1>8 DEF Min

\* The kind of a memory: a recording if it has one, and text only without media.
LEMMA KindOfIs ==
  ASSUME NEW m \in Memory
  PROVE  /\ KindOf(m) \in Label
         /\ KindOf(m) = "audio" <=> Recorded(m)
         /\ KindOf(m) = "text" <=> LinksOf[m] = << >>
<1> DEFINE kinds == LinksOf[m]
           I == {i \in DOMAIN kinds : \A k \in DOMAIN kinds :
                   Priority(kinds[i]) <= Priority(kinds[k])}
<1>1. kinds \in Seq({"audio", "photo", "video"})
  BY ReadingAssumption DEF MediaKind
<1>2. /\ DOMAIN kinds \subseteq Nat
      /\ \A i \in DOMAIN kinds : kinds[i] \in {"audio", "photo", "video"}
  BY <1>1
<1>3. Priority("audio") = 0 /\ Priority("photo") = 1 /\ Priority("video") = 1
  BY DEF Priority
<1>4. CASE kinds = << >>
  <2>1. KindOf(m) = "text"
    BY <1>4 DEF KindOf
  <2>2. ~ Recorded(m)
    BY <1>4 DEF Recorded
  <2> QED
    BY <1>4, <2>1, <2>2 DEF Label
<1>5. CASE kinds # << >>
  <2>1. 1 \in DOMAIN kinds
    BY <1>1, <1>5
  <2>2. I # {}
    <3>1. CASE \E k \in DOMAIN kinds : kinds[k] = "audio"
      <4>1. PICK k \in DOMAIN kinds : kinds[k] = "audio"
        BY <3>1
      <4>2. k \in I
        BY <1>2, <1>3, <4>1
      <4> QED
        BY <4>2
    <3>2. CASE ~ \E k \in DOMAIN kinds : kinds[k] = "audio"
      <4>1. 1 \in I
        BY <1>2, <1>3, <2>1, <3>2
      <4> QED
        BY <4>1
    <3> QED
      BY <3>1, <3>2
  <2>3. Min(I) \in I
    <3>1. I \in SUBSET Nat
      BY <1>2
    <3> HIDE DEF I
    <3> QED
      BY <2>2, <3>1, LeastExists
  <2>4. KindOf(m) = kinds[Min(I)]
    BY <1>5 DEF KindOf, BestKind
  <2>5. PICK i \in I : KindOf(m) = kinds[i]
    <3> HIDE DEF I, kinds
    <3> QED
      BY <2>3, <2>4
  <2>6. i \in DOMAIN kinds /\ \A k \in DOMAIN kinds : Priority(kinds[i]) <= Priority(kinds[k])
    OBVIOUS
  <2>7. KindOf(m) \in {"audio", "photo", "video"}
    BY <1>2, <2>5, <2>6
  <2>8. KindOf(m) = "audio" <=> Recorded(m)
    BY <1>2, <1>3, <2>5, <2>6 DEF Recorded
  <2> QED
    BY <1>5, <2>7, <2>8 DEF Label, MediaKind
<1> QED
  BY <1>4, <1>5

LEMMA KindForIs ==
  ASSUME NEW ms \in SUBSET Memory, NEW name, \E m \in ms : NameOf[m] = name
  PROVE  LET theirs == {m \in ms : NameOf[m] = name} IN
         /\ KindFor(name, ms) \in Label
         /\ KindFor(name, ms) = "audio" <=> \E m \in theirs : Recorded(m)
         /\ KindFor(name, ms) = "text" <=> \A m \in theirs : LinksOf[m] = << >>
<1> DEFINE theirs == {m \in ms : NameOf[m] = name}
           kinds == {KindOf(m) : m \in theirs}
<1>1. \A m \in theirs : /\ KindOf(m) \in Label
                        /\ KindOf(m) = "audio" <=> Recorded(m)
                        /\ KindOf(m) = "text" <=> LinksOf[m] = << >>
  BY KindOfIs
<1>2. /\ Priority("audio") = 0 /\ Priority("text") = 2
      /\ Priority("photo") = 1 /\ Priority("video") = 1
  BY DEF Priority
<1>3. kinds # {} /\ kinds \subseteq {"audio", "photo", "video", "text"}
  BY <1>1 DEF Label, MediaKind
<1>4. KindFor(name, ms) = CHOOSE k \in kinds : \A l \in kinds : Priority(k) <= Priority(l)
  BY DEF KindFor
<1>5. \A m \in theirs : KindOf(m) \in kinds
  OBVIOUS
<1>6. \A k \in kinds : \E m \in theirs : KindOf(m) = k
  OBVIOUS
<1> HIDE DEF kinds, theirs
<1>7. \E k \in kinds : \A l \in kinds : Priority(k) <= Priority(l)
  <2>1. CASE "audio" \in kinds
    BY <1>2, <1>3, <2>1
  <2>2. CASE "audio" \notin kinds /\ "photo" \in kinds
    BY <1>2, <1>3, <2>2
  <2>3. CASE "audio" \notin kinds /\ "video" \in kinds
    BY <1>2, <1>3, <2>3
  <2>4. CASE kinds = {"text"}
    BY <1>2, <2>4
  <2> QED
    BY <1>3, <2>1, <2>2, <2>3, <2>4
<1>8. PICK k \in kinds :
        k = KindFor(name, ms) /\ \A l \in kinds : Priority(k) <= Priority(l)
  BY <1>4, <1>7
<1>9. k = "audio" <=> "audio" \in kinds
  BY <1>2, <1>3, <1>8
<1>10. k = "text" <=> \A l \in kinds : l = "text"
  BY <1>2, <1>3, <1>8
<1>11. k = "audio" <=> \E m \in theirs : Recorded(m)
  BY <1>1, <1>5, <1>6, <1>9
<1>12. k = "text" <=> \A m \in theirs : LinksOf[m] = << >>
  BY <1>1, <1>5, <1>6, <1>10
<1>13. k \in Label
  BY <1>1, <1>6
<1> QED
  BY <1>8, <1>11, <1>12, <1>13 DEF theirs

LEMMA AttributionIs ==
  ASSUME NEW ms \in SUBSET Memory
  PROVE  /\ Attribution(ms) \in SUBSET (Name \X Label)
         /\ {n[1] : n \in Attribution(ms)} = Contributors(ms)
         /\ \A n \in Attribution(ms) :
              LET theirs == {m \in ms : NameOf[m] = n[1]} IN
              /\ n[2] = "audio" <=> \E m \in theirs : Recorded(m)
              /\ n[2] = "text" <=> \A m \in theirs : LinksOf[m] = << >>
<1>1. ASSUME NEW name \in Contributors(ms)
      PROVE  /\ name \in Name
             /\ \E m \in ms : NameOf[m] = name
             /\ KindFor(name, ms) \in Label
  <2>1. name \in Name /\ \E m \in ms : NameOf[m] = name
    BY ReadingAssumption DEF Contributors
  <2> QED
    BY <2>1, KindForIs
<1>2. Attribution(ms) = {<<n, KindFor(n, ms)>> : n \in Contributors(ms)}
  BY DEF Attribution
<1>3. Attribution(ms) \in SUBSET (Name \X Label)
  BY <1>1, <1>2
<1>4. {n[1] : n \in Attribution(ms)} = Contributors(ms)
  <2>1. ASSUME NEW n \in Attribution(ms) PROVE n[1] \in Contributors(ms)
    BY <1>2
  <2>2. ASSUME NEW name \in Contributors(ms)
        PROVE  \E n \in Attribution(ms) : n[1] = name
    <3>1. <<name, KindFor(name, ms)>> \in Attribution(ms)
      BY <1>2
    <3>2. <<name, KindFor(name, ms)>>[1] = name
      OBVIOUS
    <3> QED
      BY <3>1, <3>2
  <2> QED
    BY <2>1, <2>2
<1>5. ASSUME NEW n \in Attribution(ms)
      PROVE  LET theirs == {m \in ms : NameOf[m] = n[1]} IN
             /\ n[2] = "audio" <=> \E m \in theirs : Recorded(m)
             /\ n[2] = "text" <=> \A m \in theirs : LinksOf[m] = << >>
  <2>1. PICK name \in Contributors(ms) : n = <<name, KindFor(name, ms)>>
    BY <1>2
  <2>2. n[1] = name /\ n[2] = KindFor(name, ms)
    BY <2>1
  <2>3. LET theirs == {m \in ms : NameOf[m] = name} IN
        /\ KindFor(name, ms) = "audio" <=> \E m \in theirs : Recorded(m)
        /\ KindFor(name, ms) = "text" <=> \A m \in theirs : LinksOf[m] = << >>
    BY <1>1, KindForIs
  <2> QED
    BY <2>2, <2>3
<1> QED
  BY <1>3, <1>4, <1>5

-----------------------------------------------------------------------------
(* The invariant of the archive's readers *)

USE DEF telling

\* The types, by who changes what.
ArchiveTypes ==
  /\ memory \in [Memory -> {"absent", "draft", "submitted", "deleted"}]
  /\ spoken \subseteq MemoryRows
  /\ section \subseteq Section
  /\ cites \in [Section -> SUBSET Memory] /\ draft \in [Section -> SUBSET Memory]
  /\ writer \in {"idle", "insert", "sources"}
  /\ {published, gap} \subseteq BOOLEAN
  /\ told \subseteq Section /\ printed \subseteq Memory
  /\ acts \in 0 .. MaxActs
  /\ bare \subseteq Job

Pdf == [words : SUBSET Memory, voices : SUBSET Memory, sections : SUBSET Section,
        cites : [Section -> SUBSET Memory], named : [Section -> SUBSET (Name \X Label)]]

ExportRow == [status : {"absent", "queued", "ready", "failed"}, keyed : BOOLEAN]

JobTypes ==
  /\ row \in [Job -> ExportRow]
  /\ file \subseteq Job /\ bare \subseteq Job
  /\ exportPc \in [Job -> JobCall \cup JobOver]
  /\ pdf \in [Job -> Pdf]

Page == [at : PageCall, as : Role, memories : SUBSET Memory, voices : SUBSET Memory,
         sections : SUBSET Section, cites : [Section -> SUBSET Memory],
         asked : Section \cup {Null}, originals : SUBSET Memory]

PageTypes == page \in [Visitor -> Page]

LEMMA TypesOK == ReadingTypes <=> ArchiveTypes /\ JobTypes /\ PageTypes
BY DEF ReadingTypes, ArchiveTypes, JobTypes, PageTypes, Pdf, Page, ExportRow

LEMMA TypesStayOK == ASSUME ArchiveTypes', JobTypes', PageTypes' PROVE ReadingTypes'
BY DEF ReadingTypes, ArchiveTypes, JobTypes, PageTypes, Pdf, Page, ExportRow

Written == {"ready", "failed"} \cup JobOver

\* A citation is of a memory that has a row.
CitesHaveRows == \A s \in Section : cites[s] \subseteq MemoryRows /\ draft[s] \subseteq MemoryRows

\* The sections are the ones last stored, less the deleted, unless a generation has
\* deleted them all; and no memory changes once the book is published.
BookFits ==
  /\ section = IF gap THEN {} ELSE told
  /\ published => printed = Submitted

\* What a job has read of the sections, its row and its file.
JobFits(j) ==
  /\ j \in Running /\ section = {} => j \in bare
  /\ exportPc[j] \in {"sources", "render"} /\ pdf[j].sections = {} => j \in bare
  /\ exportPc[j] = "upload" \/ j \in file =>
       (pdf[j].words \cup pdf[j].voices # {} => j \in bare)
  /\ j \in file => exportPc[j] \in Written
  /\ exportPc[j] = "ready" \/ row[j].keyed => j \in file
  /\ row[j].status = "queued" =>
       exportPc[j] \in (JobCall \ {"request"}) \cup {"refused", "raised"}
  /\ \A s \in Section : pdf[j].named[s] = Attribution(pdf[j].cites[s])

\* What a reader's page has is the published book, and what is behind a section is
\* what it cites.
PageIsFit(q) ==
  /\ q.as = "reader" =>
       /\ q.at # "away" => published
       /\ q.at \in {"transcripts", "sections", "sources", "shown"} => q.memories = Submitted
       /\ q.at \in {"sources", "shown"} => q.sections = section
  /\ q.asked # Null => q.at = "shown" /\ q.originals = q.cites[q.asked]

PageFits(v) == PageIsFit(page[v])

ReadingInv ==
  /\ ReadingTypes
  /\ CitesHaveRows
  /\ BookFits
  /\ \A j \in Job : JobFits(j)
  /\ \A v \in Visitor : PageFits(v)

LEMMA ReadingBegins == ASSUME ReadingInit PROVE ReadingInv
<1> USE DEF ReadingInit
<1>1. ReadingTypes
  <2>1. ArchiveTypes
    <3>1. NoCites \in [Section -> SUBSET Memory]
      BY DEF NoCites
    <3>2. 0 \in 0 .. MaxActs
      BY ReadingAssumption
    <3>3. memory \in [Memory -> {"absent", "draft", "submitted", "deleted"}]
      OBVIOUS
    <3> QED
      BY <3>1, <3>2, <3>3 DEF ArchiveTypes
  <2>2. JobTypes
    BY DEF JobTypes, Pdf, ExportRow, NoCites, Blank, JobCall, JobOver
  <2>3. PageTypes
    BY DEF PageTypes, Page, NoCites, NoPage, Role, PageCall
  <2> QED
    BY <2>1, <2>2, <2>3, TypesOK
<1>2. CitesHaveRows
  BY DEF CitesHaveRows, NoCites
<1>3. ASSUME NEW j \in Job PROVE JobFits(j)
  <2>1. Attribution({}) = {}
    BY DEF Attribution, Contributors
  <2> QED
    BY <2>1 DEF JobFits, Written, Running, JobCall, JobOver, Blank, NoCites
<1>4. ASSUME NEW v \in Visitor PROVE PageFits(v)
  BY DEF PageFits, PageIsFit, NoPage
<1>5. BookFits
  BY DEF BookFits
<1> QED
  BY <1>1, <1>2, <1>3, <1>4, <1>5 DEF ReadingInv

-----------------------------------------------------------------------------
(* Steps of the family and of the writer of the narrative *)

ArchiveStep ==
  \/ \E m \in Memory, status \in {"draft", "submitted", "deleted"} : Write(m, status)
  \/ \E m \in Memory : Transcribe(m)
  \/ DeleteAll \/ InsertSections \/ InsertSources \/ Publish
  \/ \E s \in Section : DeleteSection(s)

\* A row of memory stays.
LEMMA RowsGrow ==
  ASSUME ReadingInv, NEW m \in Memory, NEW status \in {"draft", "submitted", "deleted"},
         Write(m, status)
  PROVE  memory' \in [Memory -> {"absent", "draft", "submitted", "deleted"}]
         /\ MemoryRows \subseteq MemoryRows'
BY DEF ReadingInv, ReadingTypes, Write, MemoryRows

LEMMA ArchiveKeeps ==
  ASSUME ReadingInv, ArchiveStep
  PROVE  /\ ArchiveTypes' /\ CitesHaveRows' /\ BookFits'
         /\ UNCHANGED <<row, file, exportPc, pdf, page>>
         /\ bare \subseteq bare'
         /\ section' = {} => section = {} \/ Running \subseteq bare'
         /\ published => published' /\ memory' = memory /\ section' = section
<1> USE DEF export, archive
<1>0. ArchiveTypes /\ CitesHaveRows /\ BookFits
  BY TypesOK DEF ReadingInv
<1>1. ASSUME NEW m \in Memory, NEW status \in {"draft", "submitted", "deleted"},
             Write(m, status)
      PROVE  /\ ArchiveTypes' /\ CitesHaveRows' /\ BookFits'
             /\ UNCHANGED <<row, file, exportPc, pdf, page, section, bare>> /\ ~ published
  <2>1. memory' \in [Memory -> {"absent", "draft", "submitted", "deleted"}]
        /\ MemoryRows \subseteq MemoryRows'
    BY <1>1, RowsGrow
  <2>2. /\ UNCHANGED <<spoken, section, cites, draft, writer, published, bare, told, gap, printed>>
        /\ UNCHANGED <<row, file, exportPc, pdf, page>> /\ ~ published
    BY <1>1 DEF Write, Admitted
  <2>3. acts' \in 0 .. MaxActs
    BY <1>0, <1>1, ReadingAssumption DEF Write, Act, ArchiveTypes
  <2> QED
    BY <1>0, <2>1, <2>2, <2>3 DEF ArchiveTypes, CitesHaveRows, BookFits
<1>2. ASSUME NEW m \in Memory, Transcribe(m)
      PROVE  /\ ArchiveTypes' /\ CitesHaveRows' /\ BookFits'
             /\ UNCHANGED <<row, file, exportPc, pdf, page, memory, section, bare, published>>
  BY <1>0, <1>2 DEF Transcribe, ArchiveTypes, CitesHaveRows, MemoryRows, BookFits, Submitted
<1>3. CASE DeleteAll
  <2>1. draft' \in [Section -> (SUBSET Submitted) \ {{}}]
    BY <1>3 DEF DeleteAll
  <2>2. Submitted \subseteq MemoryRows
    BY DEF Submitted, MemoryRows
  <2>3. /\ cites' = NoCites /\ section' = {} /\ writer' = "insert" /\ ~ published
        /\ bare' = bare \cup Running /\ gap' = TRUE
        /\ UNCHANGED <<memory, spoken, published, told, printed, row, file, exportPc, pdf, page>>
    BY <1>3 DEF DeleteAll, Admitted
  <2>4. acts' \in 0 .. MaxActs
    BY <1>0, <1>3, ReadingAssumption DEF DeleteAll, Act, ArchiveTypes
  <2>5. MemoryRows' = MemoryRows /\ MemoryRows \subseteq Memory /\ Running \subseteq Job
    BY <2>3 DEF MemoryRows, Running
  <2>6. CitesHaveRows' /\ BookFits'
    BY <2>1, <2>2, <2>3, <2>5 DEF CitesHaveRows, NoCites, BookFits
  <2>7. ArchiveTypes'
    BY <1>0, <2>1, <2>2, <2>3, <2>4, <2>5 DEF ArchiveTypes, NoCites
  <2> QED
    BY <2>3, <2>6, <2>7
<1>4. CASE InsertSections
  <2>1. /\ UNCHANGED <<memory, spoken, cites, published, acts, bare, printed>>
        /\ UNCHANGED <<row, file, exportPc, pdf, page>>
        /\ writer' \in {"sources", "idle"} /\ draft' \in {draft, NoCites}
        /\ \/ ~ published /\ section' = Section /\ told' = Section /\ gap' = FALSE
           \/ UNCHANGED <<section, told, gap>>
    BY <1>4 DEF InsertSections, WriterTo, Admitted, Stored, Confirmed
  <2>2. MemoryRows' = MemoryRows /\ Submitted' = Submitted
    BY <2>1 DEF MemoryRows, Submitted
  <2>3. CitesHaveRows' /\ BookFits'
    BY <1>0, <2>1, <2>2 DEF CitesHaveRows, NoCites, BookFits
  <2>4. NoCites \in [Section -> SUBSET Memory]
    BY DEF NoCites
  <2>5. ArchiveTypes'
    BY <1>0, <2>1, <2>2, <2>4 DEF ArchiveTypes
  <2>6. section' = {} => section = {}
    BY <1>0, <2>1 DEF ArchiveTypes
  <2> QED
    BY <2>1, <2>3, <2>5, <2>6
<1>5. CASE InsertSources
  <2>1. /\ UNCHANGED <<memory, spoken, section, published, acts, bare, told, gap, printed>>
        /\ UNCHANGED <<row, file, exportPc, pdf, page>>
        /\ writer' = "idle" /\ draft' = NoCites /\ cites' \in {draft, cites}
    BY <1>5 DEF InsertSources, WriterTo
  <2>2. MemoryRows' = MemoryRows /\ Submitted' = Submitted
    BY <2>1 DEF MemoryRows, Submitted
  <2>3. CitesHaveRows' /\ BookFits'
    BY <1>0, <2>1, <2>2 DEF CitesHaveRows, NoCites, BookFits
  <2>4. NoCites \in [Section -> SUBSET Memory]
    BY DEF NoCites
  <2>5. ArchiveTypes'
    BY <1>0, <2>1, <2>2, <2>4 DEF ArchiveTypes
  <2> QED
    BY <2>1, <2>3, <2>5
<1>6. CASE Publish
  <2>1. MemoryRows' = MemoryRows /\ Submitted' = Submitted /\ Submitted \subseteq Memory
    BY <1>6 DEF Publish, MemoryRows, Submitted
  <2> QED
    BY <1>0, <1>6, <2>1 DEF Publish, ArchiveTypes, CitesHaveRows, BookFits
<1>7. ASSUME NEW s \in Section, DeleteSection(s)
      PROVE  /\ ArchiveTypes' /\ CitesHaveRows' /\ BookFits'
             /\ UNCHANGED <<row, file, exportPc, pdf, page>> /\ ~ published
             /\ bare \subseteq bare' /\ (section' = {} => Running \subseteq bare')
  <2>1. /\ s \in section /\ section' = section \ {s} /\ told' = told \ {s} /\ ~ published
        /\ cites' = [cites EXCEPT ![s] = {}]
        /\ bare' = IF section' = {} THEN bare \cup Running ELSE bare
        /\ UNCHANGED <<memory, spoken, draft, writer, published, gap, printed>>
        /\ UNCHANGED <<row, file, exportPc, pdf, page>>
    BY <1>7 DEF DeleteSection, Admitted
  <2>2. MemoryRows' = MemoryRows /\ Running \subseteq Job
    BY <2>1 DEF MemoryRows, Running
  <2>3. acts' \in 0 .. MaxActs
    BY <1>0, <1>7, ReadingAssumption DEF DeleteSection, Act, ArchiveTypes
  <2>4. CitesHaveRows' /\ BookFits'
    BY <1>0, <2>1, <2>2 DEF CitesHaveRows, BookFits, ArchiveTypes
  <2>5. ArchiveTypes'
    BY <1>0, <2>1, <2>2, <2>3 DEF ArchiveTypes
  <2> QED
    BY <2>1, <2>4, <2>5
<1> QED
  BY <1>1, <1>2, <1>3, <1>4, <1>5, <1>6, <1>7 DEF ArchiveStep

\* What a job and a page rely on.
LEMMA JobFrame ==
  ASSUME NEW j \in Job, JobFits(j),
         row'[j] = row[j], exportPc'[j] = exportPc[j], pdf'[j] = pdf[j],
         j \in file' <=> j \in file, bare \subseteq bare',
         section' = {} => section = {} \/ Running \subseteq bare'
  PROVE  JobFits(j)'
BY DEF JobFits, Running

LEMMA PageFrame ==
  ASSUME NEW v \in Visitor, PageFits(v), page'[v] = page[v],
         published => published' /\ memory' = memory /\ section' = section
  PROVE  PageFits(v)'
BY DEF PageFits, PageIsFit, Submitted

LEMMA ArchiveInv == ASSUME ReadingInv, ArchiveStep PROVE ReadingInv'
<1>1. /\ ArchiveTypes' /\ CitesHaveRows' /\ BookFits'
      /\ UNCHANGED <<row, file, exportPc, pdf, page>>
      /\ bare \subseteq bare'
      /\ section' = {} => section = {} \/ Running \subseteq bare'
      /\ published => published' /\ memory' = memory /\ section' = section
  BY ArchiveKeeps
<1>2. ReadingTypes'
  <2>1. JobTypes /\ PageTypes
    BY TypesOK DEF ReadingInv
  <2>2. JobTypes' /\ PageTypes'
    BY <1>1, <2>1 DEF ArchiveTypes, JobTypes, PageTypes
  <2> QED
    BY <1>1, <2>2, TypesStayOK
<1>3. \A j \in Job : JobFits(j)'
  BY <1>1, JobFrame DEF ReadingInv
<1>4. \A v \in Visitor : PageFits(v)'
  BY <1>1, PageFrame DEF ReadingInv
<1> QED
  BY <1>1, <1>2, <1>3, <1>4 DEF ReadingInv

-----------------------------------------------------------------------------
(* Steps of an export job *)

\* A step of job j is its own affair.
OwnStep(j) ==
  /\ UNCHANGED <<memory, spoken, section, cites, draft, writer, published, acts, page>>
  /\ UNCHANGED <<told, gap, printed>>
  /\ bare \subseteq bare'
  /\ \A k \in Job \ {j} :
       row'[k] = row[k] /\ exportPc'[k] = exportPc[k] /\ pdf'[k] = pdf[k]
       /\ (k \in file' <=> k \in file)

\* A job whose row becomes r and whose file p, and that goes on with the call to.
JobMoves(j, r, p, to) ==
  /\ r \in ExportRow /\ p \in Pdf /\ to \in JobCall \cup JobOver
  /\ row' = [row EXCEPT ![j] = r]
  /\ pdf' = [pdf EXCEPT ![j] = p]
  /\ exportPc' = [exportPc EXCEPT ![j] = to]
  /\ file' \in {file, file \cup {j}} /\ bare' \in {bare, bare \cup {j}}
  /\ UNCHANGED <<memory, spoken, section, cites, draft, writer, published, acts, telling, page>>

LEMMA JobStep ==
  ASSUME ReadingInv, NEW j \in Job, NEW r, NEW p, NEW to, JobMoves(j, r, p, to)
  PROVE  /\ JobTypes' /\ OwnStep(j)
         /\ row'[j] = r /\ exportPc'[j] = to /\ pdf'[j] = p
<1>1. JobTypes
  BY TypesOK DEF ReadingInv
<1>2. row'[j] = r /\ exportPc'[j] = to /\ pdf'[j] = p
  BY <1>1 DEF JobTypes, JobMoves
<1>3. JobTypes'
  BY <1>1 DEF JobTypes, JobMoves
<1>4. OwnStep(j)
  BY <1>1 DEF OwnStep, JobTypes, JobMoves
<1> QED
  BY <1>2, <1>3, <1>4

LEMMA JobNow ==
  ASSUME ReadingInv, NEW j \in Job
  PROVE  /\ row \in [Job -> ExportRow]
         /\ exportPc \in [Job -> JobCall \cup JobOver] /\ pdf \in [Job -> Pdf]
         /\ row[j] \in ExportRow
         /\ pdf[j] \in Pdf /\ JobFits(j)
         /\ row = [row EXCEPT ![j] = row[j]] /\ pdf = [pdf EXCEPT ![j] = pdf[j]]
         /\ exportPc = [exportPc EXCEPT ![j] = exportPc[j]]
BY TypesOK DEF ReadingInv, JobTypes

LEMMA PdfUpdates ==
  ASSUME NEW p \in Pdf, NEW ms \in SUBSET Memory, NEW ss \in SUBSET Section
  PROVE  LET words == [p EXCEPT !.words = ms]
             voices == [p EXCEPT !.voices = ms]
             sections == [p EXCEPT !.sections = ss]
         IN  /\ words \in Pdf /\ words.cites = p.cites /\ words.named = p.named
             /\ voices \in Pdf /\ voices.cites = p.cites /\ voices.named = p.named
             /\ sections \in Pdf /\ sections.cites = p.cites /\ sections.named = p.named
             /\ sections.sections = ss
BY DEF Pdf

LEMMA RequestStep ==
  ASSUME ReadingInv, NEW j \in Job, RequestExport(j)
  PROVE  JobTypes' /\ OwnStep(j) /\ JobFits(j)'
<1>1. PICK reply \in ReadingReply("request") :
        /\ row' = IF Stored(reply) THEN [row EXCEPT ![j].status = "queued"] ELSE row
        /\ Proceed(j, IF Confirmed(reply) THEN "memories" ELSE "refused")
  BY DEF RequestExport
<1> DEFINE r == IF Stored(reply) THEN [row[j] EXCEPT !.status = "queued"] ELSE row[j]
           to == IF Confirmed(reply) THEN "memories" ELSE "refused"
<1>2. /\ r \in ExportRow
      /\ r.keyed = row[j].keyed /\ (r.status = "queued" => Stored(reply) \/ r = row[j])
      /\ row' = [row EXCEPT ![j] = r]
  <2>1. CASE Stored(reply)
    BY <1>1, <2>1, JobNow DEF ExportRow
  <2>2. CASE ~ Stored(reply)
    BY <1>1, <2>2, JobNow
  <2> QED
    BY <2>1, <2>2
<1>3. /\ to \in {"memories", "refused"}
      /\ exportPc' = [exportPc EXCEPT ![j] = to]
      /\ pdf' = [pdf EXCEPT ![j] = pdf[j]] /\ file' = file
      /\ bare' = IF section = {} THEN bare \cup {j} ELSE bare
      /\ UNCHANGED <<memory, spoken, section, cites, draft, writer, published, acts, telling, page>>
      /\ exportPc[j] = "request"
  BY <1>1, JobNow DEF RequestExport, Proceed
<1> HIDE DEF r, to
<1>4. /\ JobTypes' /\ OwnStep(j)
      /\ row'[j] = r /\ exportPc'[j] = to /\ pdf'[j] = pdf[j]
  <2>1. to \in JobCall \cup JobOver /\ pdf[j] \in Pdf
    BY <1>3, JobNow DEF JobCall, JobOver
  <2>2. bare' \in {bare, bare \cup {j}} /\ file' \in {file, file \cup {j}}
    BY <1>3
  <2>3. JobMoves(j, r, pdf[j], to)
    BY <1>2, <1>3, <2>1, <2>2 DEF JobMoves
  <2> QED
    BY <2>3, JobStep
<1>5. JobFits(j)'
  <2>1. JobFits(j)
    BY JobNow
  <2> QED
    BY <1>2, <1>3, <1>4, <2>1 DEF JobFits, Running, JobCall, JobOver, Written
<1> QED
  BY <1>4, <1>5

LEMMA ReadStep ==
  ASSUME ReadingInv, NEW j \in Job,
         ReadMemories(j) \/ ReadTranscripts(j) \/ ReadSections(j)
  PROVE  JobTypes' /\ OwnStep(j) /\ JobFits(j)'
<1>1. PICK p, to :
        /\ p \in Pdf /\ p.cites = pdf[j].cites /\ p.named = pdf[j].named
        /\ to \in {"transcripts", "sections", "sources", "render"}
        /\ exportPc[j] \in {"memories", "transcripts", "sections"}
        /\ to \in {"sources", "render"} => p.sections = section
        /\ exportPc' = [exportPc EXCEPT ![j] = to] /\ pdf' = [pdf EXCEPT ![j] = p]
  <2> USE DEF Proceed
  <2>1. CASE ReadMemories(j)
    <3> DEFINE p == [pdf[j] EXCEPT !.words = MemoryRows]
    <3>1. p \in Pdf /\ p.cites = pdf[j].cites /\ p.named = pdf[j].named
      <4>1. pdf[j] \in Pdf /\ MemoryRows \in SUBSET Memory
        BY JobNow DEF MemoryRows
      <4> QED
        BY <4>1, PdfUpdates
    <3>2. pdf' = [pdf EXCEPT ![j] = p]
      BY <2>1, JobNow DEF ReadMemories
    <3> QED
      BY <2>1, <3>1, <3>2 DEF ReadMemories
  <2>2. CASE ReadTranscripts(j)
    <3> DEFINE p == [pdf[j] EXCEPT !.voices = spoken]
    <3>1. p \in Pdf /\ p.cites = pdf[j].cites /\ p.named = pdf[j].named
      <4>1. pdf[j] \in Pdf /\ spoken \in SUBSET Memory
        BY JobNow, TypesOK DEF ReadingInv, ArchiveTypes, MemoryRows
      <4> QED
        BY <4>1, PdfUpdates
    <3>2. pdf' = [pdf EXCEPT ![j] = p]
      BY <2>2, JobNow DEF ReadTranscripts
    <3> QED
      BY <2>2, <3>1, <3>2 DEF ReadTranscripts
  <2>3. CASE ReadSections(j)
    <3> DEFINE p == [pdf[j] EXCEPT !.sections = section]
    <3>1. /\ p \in Pdf /\ p.cites = pdf[j].cites /\ p.named = pdf[j].named
          /\ p.sections = section
      <4>1. pdf[j] \in Pdf /\ section \in SUBSET Section
        BY JobNow, TypesOK DEF ReadingInv, ArchiveTypes
      <4> QED
        BY <4>1, PdfUpdates
    <3>2. pdf' = [pdf EXCEPT ![j] = p]
      BY <2>3, JobNow DEF ReadSections
    <3> HIDE DEF p
    <3> QED
      BY <2>3, <3>1, <3>2 DEF ReadSections
  <2> QED
    BY <2>1, <2>2, <2>3
<1>2. UNCHANGED <<memory, spoken, section, cites, draft, writer, published, acts, bare, row,
                  file, page, told, gap, printed>>
  BY DEF ReadMemories, ReadTranscripts, ReadSections, archive
<1>3. /\ JobTypes' /\ OwnStep(j)
      /\ row'[j] = row[j] /\ exportPc'[j] = to /\ pdf'[j] = p
  <2>1. to \in JobCall \cup JobOver
    BY <1>1 DEF JobCall, JobOver
  <2>2. row' = [row EXCEPT ![j] = row[j]]
    BY <1>2, JobNow
  <2>3. row[j] \in ExportRow
    BY JobNow
  <2>4. JobMoves(j, row[j], p, to)
    BY <1>1, <1>2, <2>1, <2>2, <2>3 DEF JobMoves
  <2> QED
    BY <2>4, JobStep
<1>4. JobFits(j)'
  <2>1. JobFits(j)
    BY JobNow
  <2> QED
    BY <1>1, <1>2, <1>3, <2>1 DEF JobFits, Running, JobCall, JobOver, Written
<1> QED
  BY <1>3, <1>4

LEMMA ReadSourcesStep ==
  ASSUME ReadingInv, NEW j \in Job, ReadSources(j)
  PROVE  JobTypes' /\ OwnStep(j) /\ JobFits(j)'
<1> DEFINE read == [s \in Section |-> IF s \in pdf[j].sections THEN cites[s] ELSE {}]
           cited == [s \in Section |-> IF s \in pdf[j].sections THEN CitedBy(s) ELSE {}]
           named == [s \in Section |-> Attribution(cited[s])]
<1>1. /\ pdf' = [pdf EXCEPT ![j].cites = read, ![j].named = named]
      /\ exportPc[j] = "sources" /\ exportPc' = [exportPc EXCEPT ![j] = "render"]
      /\ UNCHANGED <<memory, spoken, section, cites, draft, writer, published, acts, bare>>
      /\ UNCHANGED <<row, file, page, told, gap, printed>>
  BY DEF ReadSources, Proceed, archive
<1>2. \A s \in Section : cited[s] = read[s] /\ read[s] \in SUBSET Memory
  BY DEF CitedBy, ReadingInv, CitesHaveRows, ReadingTypes
<1>3. read \in [Section -> SUBSET Memory]
  BY <1>2
<1>4. named \in [Section -> SUBSET (Name \X Label)]
  <2>1. \A s \in Section : Attribution(cited[s]) \in SUBSET (Name \X Label)
    BY <1>2, AttributionIs
  <2> QED
    BY <2>1
<1>5. \A s \in Section : named[s] = Attribution(read[s])
  BY <1>2
<1> HIDE DEF read, named
<1>6. [pdf[j] EXCEPT !.cites = read, !.named = named] \in Pdf
  <2>1. pdf[j] \in Pdf
    BY JobNow
  <2> QED
    BY <1>3, <1>4, <2>1 DEF Pdf
<1>7. PICK p \in Pdf :
        /\ p.cites = read /\ p.named = named /\ p.sections = pdf[j].sections
        /\ p.words = pdf[j].words /\ p.voices = pdf[j].voices
        /\ pdf' = [pdf EXCEPT ![j] = p]
  <2> DEFINE p == [pdf[j] EXCEPT !.cites = read, !.named = named]
  <2>1. /\ p.cites = read /\ p.named = named /\ p.sections = pdf[j].sections
        /\ p.words = pdf[j].words /\ p.voices = pdf[j].voices
    BY JobNow DEF Pdf
  <2>2. pdf' = [pdf EXCEPT ![j] = p]
    BY <1>1, JobNow
  <2> HIDE DEF p
  <2> QED
    BY <1>6, <2>1, <2>2 DEF p
<1>8. /\ JobTypes' /\ OwnStep(j)
      /\ row'[j] = row[j] /\ exportPc'[j] = "render" /\ pdf'[j] = p
  <2>1. row' = [row EXCEPT ![j] = row[j]] /\ row[j] \in ExportRow
    BY <1>1, JobNow
  <2>2. JobMoves(j, row[j], p, "render")
    BY <1>1, <1>7, <2>1 DEF JobMoves, JobCall
  <2> QED
    BY <2>2, JobStep
<1>9. JobFits(j)'
  <2>1. JobFits(j)
    BY JobNow
  <2> QED
    BY <1>1, <1>5, <1>7, <1>8, <2>1 DEF JobFits, Running, JobCall, JobOver, Written
<1> QED
  BY <1>8, <1>9

LEMMA RenderStep ==
  ASSUME ReadingInv, NEW j \in Job, Render(j)
  PROVE  JobTypes' /\ OwnStep(j) /\ JobFits(j)'
<1>1. exportPc[j] = "render"
      /\ UNCHANGED <<memory, spoken, section, cites, draft, writer, published, acts, bare, row,
                     file, page, told, gap, printed>>
  BY DEF Render, archive
<1>2. PICK p \in Pdf, to \in {"upload", "failed"} :
        /\ p.cites = pdf[j].cites /\ p.named = pdf[j].named
        /\ to = "upload" /\ pdf[j].sections # {} => p.words \cup p.voices = {}
        /\ pdf' = [pdf EXCEPT ![j] = p] /\ exportPc' = [exportPc EXCEPT ![j] = to]
  <2>1. pdf[j] \in Pdf
    BY JobNow
  <2>2. ASSUME pdf' = [pdf EXCEPT
                         ![j].words = IF HasNarrative(j) THEN {} ELSE @,
                         ![j].voices = IF HasNarrative(j) THEN {} ELSE @],
               Proceed(j, "upload")
        PROVE  \E p \in Pdf :
                 /\ p.cites = pdf[j].cites /\ p.named = pdf[j].named
                 /\ pdf[j].sections # {} => p.words \cup p.voices = {}
                 /\ pdf' = [pdf EXCEPT ![j] = p]
    <3> DEFINE p == [pdf[j] EXCEPT !.words = IF HasNarrative(j) THEN {} ELSE @,
                                   !.voices = IF HasNarrative(j) THEN {} ELSE @]
    <3>1. p \in Pdf /\ p.cites = pdf[j].cites /\ p.named = pdf[j].named
      BY <2>1 DEF Pdf
    <3>2. pdf[j].sections # {} => p.words \cup p.voices = {}
      BY <2>1 DEF Pdf, HasNarrative
    <3>3. pdf' = [pdf EXCEPT ![j] = p]
      BY <2>2, JobNow
    <3> HIDE DEF p
    <3> QED
      BY <3>1, <3>2, <3>3
  <2>3. CASE exportPc' = [exportPc EXCEPT ![j] = "failed"] /\ UNCHANGED pdf
    BY <2>1, <2>3, JobNow
  <2> QED
    BY <2>2, <2>3 DEF Render, Proceed, AfterRender, AfterError
<1>3. /\ JobTypes' /\ OwnStep(j)
      /\ row'[j] = row[j] /\ exportPc'[j] = to /\ pdf'[j] = p
  <2>1. row' = [row EXCEPT ![j] = row[j]] /\ row[j] \in ExportRow
    BY <1>1, JobNow
  <2>2. JobMoves(j, row[j], p, to)
    BY <1>1, <1>2, <2>1 DEF JobMoves, JobCall
  <2> QED
    BY <2>2, JobStep
<1>4. JobFits(j)'
  <2>1. JobFits(j)
    BY JobNow
  <2> QED
    BY <1>1, <1>2, <1>3, <2>1 DEF JobFits, Running, JobCall, JobOver, Written
<1> QED
  BY <1>3, <1>4

\* The upload and the two writes of the row.
LEMMA WriteStep ==
  ASSUME ReadingInv, NEW j \in Job,
         Upload(j) \/ MarkReady(j) \/ MarkFailed(j)
  PROVE  JobTypes' /\ OwnStep(j) /\ JobFits(j)'
<1>1. PICK r \in ExportRow, to \in {"ready", "failed", "ended", "raised"} :
        /\ row' = [row EXCEPT ![j] = r] /\ exportPc' = [exportPc EXCEPT ![j] = to]
        /\ file' \in {file, file \cup {j}}
        /\ exportPc[j] \in {"upload", "ready", "failed"}
        /\ to = "ready" => j \in file' /\ exportPc[j] = "upload"
        /\ r.keyed => row[j].keyed \/ exportPc[j] = "ready"
        /\ r.status = "queued" => to # "ended"
        /\ j \in file' => j \in file \/ exportPc[j] = "upload"
  <2> USE DEF Proceed, Stored, Confirmed, ReadingReply, AfterError
  <2>1. row \in [Job -> ExportRow] /\ row[j] \in ExportRow /\ row = [row EXCEPT ![j] = row[j]]
    BY JobNow
  <2>2. CASE Upload(j)
    <3>1. PICK to \in {"ready", "failed"} :
            /\ row' = [row EXCEPT ![j] = row[j]] /\ exportPc' = [exportPc EXCEPT ![j] = to]
            /\ file' \in {file, file \cup {j}}
            /\ exportPc[j] = "upload" /\ (to = "ready" => j \in file')
      BY <2>1, <2>2 DEF Upload
    <3>2. file' \in {file, file \cup {j}} /\ row[j] \in ExportRow
      BY <2>1, <3>1
    <3> QED
      BY <3>1, <3>2
  <2>3. ASSUME MarkReady(j) \/ MarkFailed(j)
        PROVE  \E reply \in {"ok", "error", "lost"} :
                 /\ reply = "error" => row' = row
                 /\ reply # "error" => \E w \in ExportRow :
                      /\ row' = [row EXCEPT ![j] = w] /\ w.status # "queued"
                      /\ w.keyed => row[j].keyed \/ exportPc[j] = "ready"
                 /\ exportPc' = [exportPc EXCEPT
                      ![j] = IF reply = "ok" THEN "ended"
                             ELSE IF exportPc[j] = "ready" THEN "failed" ELSE "raised"]
                 /\ file' = file /\ exportPc[j] \in {"ready", "failed"}
    <3>1. CASE MarkReady(j)
      <4>1. PICK reply \in {"ok", "error", "lost"} :
              /\ row' = IF reply # "error"
                          THEN [row EXCEPT ![j].status = "ready", ![j].keyed = TRUE] ELSE row
              /\ exportPc' = [exportPc EXCEPT ![j] = IF reply = "ok" THEN "ended" ELSE "failed"]
              /\ file' = file /\ exportPc[j] = "ready"
        BY <3>1 DEF MarkReady
      <4> DEFINE w == [row[j] EXCEPT !.status = "ready", !.keyed = TRUE]
      <4>2. w \in ExportRow /\ w.status # "queued"
        BY <2>1 DEF ExportRow
      <4>3. reply # "error" => row' = [row EXCEPT ![j] = w]
        BY <2>1, <4>1
      <4> HIDE DEF w
      <4> QED
        BY <4>1, <4>2, <4>3
    <3>2. CASE MarkFailed(j)
      <4>1. PICK reply \in {"ok", "error", "lost"} :
              /\ row' = IF reply # "error" THEN [row EXCEPT ![j].status = "failed"] ELSE row
              /\ exportPc' = [exportPc EXCEPT ![j] = IF reply = "ok" THEN "ended" ELSE "raised"]
              /\ file' = file /\ exportPc[j] = "failed"
        BY <3>2 DEF MarkFailed
      <4> DEFINE w == [row[j] EXCEPT !.status = "failed"]
      <4>2. w \in ExportRow /\ w.status # "queued" /\ w.keyed = row[j].keyed
        BY <2>1 DEF ExportRow
      <4>3. reply # "error" => row' = [row EXCEPT ![j] = w]
        BY <2>1, <4>1
      <4> HIDE DEF w
      <4> QED
        BY <4>1, <4>2, <4>3
    <3> QED
      BY <2>3, <3>1, <3>2
  <2> QED
    BY <2>1, <2>2, <2>3
<1>2. UNCHANGED <<memory, spoken, section, cites, draft, writer, published, acts, bare, pdf,
                  page, told, gap, printed>>
  BY DEF Upload, MarkReady, MarkFailed, archive
<1>3. /\ JobTypes' /\ OwnStep(j)
      /\ row'[j] = r /\ exportPc'[j] = to /\ pdf'[j] = pdf[j]
  <2>1. pdf' = [pdf EXCEPT ![j] = pdf[j]] /\ pdf[j] \in Pdf
    BY <1>2, JobNow
  <2>2. JobMoves(j, r, pdf[j], to)
    BY <1>1, <1>2, <2>1 DEF JobMoves, JobCall, JobOver
  <2> QED
    BY <2>2, JobStep
<1>4. JobFits(j)'
  <2>1. JobFits(j)
    BY JobNow
  <2> QED
    BY <1>1, <1>2, <1>3, <2>1 DEF JobFits, Running, JobCall, JobOver, Written
<1> QED
  BY <1>3, <1>4

LEMMA ExportInv ==
  ASSUME ReadingInv, NEW j \in Job, Export(j) PROVE ReadingInv'
<1>1. JobTypes' /\ OwnStep(j) /\ JobFits(j)'
  BY RequestStep, ReadStep, ReadSourcesStep, RenderStep, WriteStep DEF Export
<1>2. ReadingTypes'
  <2>1. ArchiveTypes /\ PageTypes
    BY TypesOK DEF ReadingInv
  <2>2. ArchiveTypes' /\ PageTypes'
    BY <1>1, <2>1 DEF ArchiveTypes, JobTypes, PageTypes, OwnStep, MemoryRows
  <2> QED
    BY <1>1, <2>2, TypesStayOK
<1>3. CitesHaveRows'
  BY <1>1 DEF ReadingInv, CitesHaveRows, OwnStep, MemoryRows
<1>4. \A k \in Job : JobFits(k)'
  <2>1. ASSUME NEW k \in Job, k # j PROVE JobFits(k)'
    BY <1>1, <2>1, JobFrame DEF ReadingInv, OwnStep
  <2> QED
    BY <1>1, <2>1
<1>5. \A v \in Visitor : PageFits(v)'
  BY <1>1, PageFrame DEF ReadingInv, OwnStep
<1>6. BookFits'
  BY <1>1 DEF ReadingInv, BookFits, OwnStep, Submitted
<1> QED
  BY <1>2, <1>3, <1>4, <1>5, <1>6 DEF ReadingInv

-----------------------------------------------------------------------------
(* Steps of a visitor *)

\* A visitor whose page becomes q.
VisitorMoves(v, q) ==
  /\ q \in Page
  /\ page' = [page EXCEPT ![v] = q]
  /\ UNCHANGED <<archive, export>>

LEMMA SeeStep ==
  ASSUME ReadingInv, NEW v \in Visitor, ViewPage(v)
  PROVE  \E q : VisitorMoves(v, q) /\ PageIsFit(q)
<1>1. page \in [Visitor -> Page] /\ page[v] \in Page /\ PageIsFit(page[v])
  BY TypesOK DEF ReadingInv, PageTypes, PageFits, PageIsFit
<1>2. /\ Submitted \in SUBSET Memory /\ NotDeleted \in SUBSET Memory
      /\ section \in SUBSET Section /\ cites \in [Section -> SUBSET Memory]
  BY TypesOK DEF ReadingInv, ArchiveTypes, Submitted, NotDeleted
<1>3. ASSUME NEW role \in Role, Open(v, role) PROVE \E q : VisitorMoves(v, q) /\ PageIsFit(q)
  <2> DEFINE q == [NoPage EXCEPT !.at = "memories", !.as = role]
  <2>1. q \in Page
    BY DEF Page, NoPage, NoCites, PageCall, Role
  <2>2. VisitorMoves(v, q)
    <3> HIDE DEF q
    <3> QED
      BY <1>3, <2>1 DEF Open, VisitorMoves, q
  <2>3. PageIsFit(q)
    BY <1>3 DEF PageIsFit, NoPage, Open, Allowed
  <2> QED
    BY <2>2, <2>3
<1>4. CASE SeeMemories(v)
  <2> DEFINE ms == IF page[v].as = "reader" THEN ReaderMemories ELSE FeedMemories
             q == [page[v] EXCEPT !["memories"] = ms, !.at = "transcripts"]
  <2>1. /\ ms \in SUBSET Memory /\ (page[v].as = "reader" => ms = Submitted)
        /\ page[v].at = "memories"
    BY <1>2, <1>4 DEF ReaderMemories, FeedMemories, SeeMemories
  <2>2. VisitorMoves(v, q) <=> q \in Page
    BY <1>4 DEF SeeMemories, See, VisitorMoves
  <2> HIDE DEF ms
  <2>3. q \in Page /\ q.memories = ms /\ q.at = "transcripts" /\ q.as = page[v].as
        /\ q.asked = page[v].asked
    BY <1>1, <2>1 DEF Page, PageCall
  <2>4. PageIsFit(q)
    <3> HIDE DEF q
    <3> QED
      BY <1>1, <2>1, <2>3 DEF PageIsFit
  <2> QED
    BY <2>2, <2>3, <2>4
<1>5. CASE SeeTranscripts(v)
  <2> DEFINE ms == page[v].memories \cap spoken
             q == [page[v] EXCEPT !["voices"] = ms, !.at = "sections"]
  <2>1. ms \in SUBSET Memory /\ page[v].at = "transcripts"
    BY <1>1, <1>5 DEF SeeTranscripts, Page
  <2>2. VisitorMoves(v, q) <=> q \in Page
    BY <1>5 DEF SeeTranscripts, See, VisitorMoves
  <2> HIDE DEF ms
  <2>3. q \in Page /\ q.memories = page[v].memories /\ q.at = "sections" /\ q.as = page[v].as
        /\ q.asked = page[v].asked
    BY <1>1, <2>1 DEF Page, PageCall
  <2>4. PageIsFit(q)
    <3> HIDE DEF q
    <3> QED
      BY <1>1, <2>1, <2>3 DEF PageIsFit
  <2> QED
    BY <2>2, <2>3, <2>4
<1>6. CASE SeeSections(v)
  <2> DEFINE to == IF section = {} THEN "shown" ELSE "sources"
             q == [page[v] EXCEPT !["sections"] = section, !.at = to]
  <2>1. to \in {"sources", "shown"} /\ page[v].at = "sections"
    BY <1>6 DEF SeeSections
  <2>2. VisitorMoves(v, q) <=> q \in Page
    BY <1>6 DEF SeeSections, See, VisitorMoves
  <2> HIDE DEF to
  <2>3. q \in Page /\ q.memories = page[v].memories /\ q.at = to /\ q.as = page[v].as
        /\ q.asked = page[v].asked /\ q.sections = section
    BY <1>1, <1>2, <2>1 DEF Page, PageCall
  <2>4. PageIsFit(q)
    <3> HIDE DEF q
    <3> QED
      BY <1>1, <2>1, <2>3 DEF PageIsFit
  <2> QED
    BY <2>2, <2>3, <2>4
<1>7. CASE SeeSources(v)
  <2> DEFINE c == [s \in Section |-> IF s \in page[v].sections THEN cites[s] ELSE {}]
             q == [page[v] EXCEPT !["cites"] = c, !.at = "shown"]
  <2>1. c \in [Section -> SUBSET Memory] /\ page[v].at = "sources"
    BY <1>2, <1>7 DEF SeeSources
  <2>2. VisitorMoves(v, q) <=> q \in Page
    BY <1>7 DEF SeeSources, See, VisitorMoves
  <2> HIDE DEF c
  <2>3. q \in Page /\ q.memories = page[v].memories /\ q.at = "shown" /\ q.as = page[v].as
        /\ q.asked = page[v].asked /\ q.sections = page[v].sections
    BY <1>1, <2>1 DEF Page, PageCall
  <2>4. PageIsFit(q)
    <3> HIDE DEF q
    <3> QED
      BY <1>1, <2>1, <2>3 DEF PageIsFit
  <2> QED
    BY <2>2, <2>3, <2>4
<1>8. ASSUME NEW s \in Section, Ask(v, s) PROVE \E q : VisitorMoves(v, q) /\ PageIsFit(q)
  <2> DEFINE c == [page[v].cites EXCEPT ![s] = cites[s]]
             q == [page[v] EXCEPT !.asked = s, !.cites = c, !.originals = cites[s]]
  <2>1. Originals(s) = cites[s] /\ cites[s] \in SUBSET Memory
    BY <1>2 DEF Originals, ReadingInv, CitesHaveRows
  <2>2. c \in [Section -> SUBSET Memory] /\ c[s] = cites[s] /\ page[v].at = "shown"
    BY <1>1, <1>8, <2>1 DEF Page, Ask
  <2>3. page' = [page EXCEPT ![v] = q]
    BY <1>1, <1>8, <2>1 DEF Ask
  <2> HIDE DEF c
  <2>4. q \in Page /\ q.memories = page[v].memories /\ q.at = page[v].at /\ q.as = page[v].as
        /\ q.asked = s /\ q.sections = page[v].sections /\ q.cites = c /\ q.originals = cites[s]
    BY <1>1, <2>1, <2>2 DEF Page, PageCall
  <2> HIDE DEF q
  <2>5. PageIsFit(q)
    BY <1>1, <2>2, <2>4 DEF PageIsFit
  <2>6. VisitorMoves(v, q)
    BY <1>8, <2>3, <2>4 DEF Ask, VisitorMoves
  <2> QED
    BY <2>5, <2>6
<1> QED
  BY <1>3, <1>4, <1>5, <1>6, <1>7, <1>8 DEF ViewPage

LEMMA VisitorStep ==
  ASSUME ReadingInv, NEW v \in Visitor, ViewPage(v)
  PROVE  /\ PageTypes' /\ PageFits(v)'
         /\ UNCHANGED <<archive, export>>
         /\ \A w \in Visitor \ {v} : page'[w] = page[w]
<1>1. PageTypes
  BY TypesOK DEF ReadingInv
<1>2. PICK q : VisitorMoves(v, q) /\ PageIsFit(q)
  BY SeeStep
<1>3. page'[v] = q /\ PageTypes' /\ \A w \in Visitor \ {v} : page'[w] = page[w]
  BY <1>1, <1>2 DEF VisitorMoves, PageTypes
<1>4. UNCHANGED <<archive, export>>
  BY <1>2 DEF VisitorMoves
<1>5. PageFits(v)'
  BY <1>2, <1>3, <1>4 DEF PageFits, PageIsFit, archive, Submitted
<1> QED
  BY <1>3, <1>4, <1>5

LEMMA VisitorInv ==
  ASSUME ReadingInv, NEW v \in Visitor, ViewPage(v) PROVE ReadingInv'
<1>1. /\ PageTypes' /\ PageFits(v)'
      /\ UNCHANGED <<archive, export>>
      /\ \A w \in Visitor \ {v} : page'[w] = page[w]
  BY VisitorStep
<1>2. ReadingTypes'
  <2>1. ArchiveTypes /\ JobTypes
    BY TypesOK DEF ReadingInv
  <2>2. ArchiveTypes' /\ JobTypes'
    BY <1>1, <2>1 DEF ArchiveTypes, JobTypes, archive, export, MemoryRows
  <2> QED
    BY <1>1, <2>2, TypesStayOK
<1>3. CitesHaveRows'
  BY <1>1 DEF ReadingInv, CitesHaveRows, archive, MemoryRows
<1>4. \A j \in Job : JobFits(j)'
  BY <1>1, JobFrame DEF ReadingInv, archive, export
<1>5. \A w \in Visitor : PageFits(w)'
  <2>1. ASSUME NEW w \in Visitor, w # v PROVE PageFits(w)'
    BY <1>1, <2>1, PageFrame DEF ReadingInv, archive
  <2> QED
    BY <1>1, <2>1
<1>6. BookFits'
  BY <1>1 DEF ReadingInv, BookFits, archive, Submitted
<1> QED
  BY <1>2, <1>3, <1>4, <1>5, <1>6 DEF ReadingInv

LEMMA ReadingStep == ASSUME ReadingInv, [ReadingNext]_readingVars PROVE ReadingInv'
<1>1. CASE ArchiveStep
  BY <1>1, ArchiveInv
<1>2. CASE \E j \in Job : Export(j)
  BY <1>2, ExportInv
<1>3. CASE \E v \in Visitor : ViewPage(v)
  BY <1>3, VisitorInv
<1>4. CASE UNCHANGED readingVars
  <2>1. UNCHANGED <<archive, export, page>>
    BY <1>4 DEF readingVars
  <2>2. ReadingTypes'
    <3>1. ArchiveTypes /\ JobTypes /\ PageTypes
      BY TypesOK DEF ReadingInv
    <3>2. ArchiveTypes' /\ JobTypes' /\ PageTypes'
      BY <2>1, <3>1 DEF ArchiveTypes, JobTypes, PageTypes, archive, export, MemoryRows
    <3> QED
      BY <3>2, TypesStayOK
  <2>3. CitesHaveRows'
    BY <2>1 DEF ReadingInv, CitesHaveRows, archive, MemoryRows
  <2>4. \A j \in Job : JobFits(j)'
    BY <2>1, JobFrame DEF ReadingInv, archive, export
  <2>5. \A v \in Visitor : PageFits(v)'
    BY <2>1, PageFrame DEF ReadingInv, archive
  <2>6. BookFits'
    BY <2>1 DEF ReadingInv, BookFits, archive, Submitted
  <2> QED
    BY <2>2, <2>3, <2>4, <2>5, <2>6 DEF ReadingInv
<1> QED
  BY <1>1, <1>2, <1>3, <1>4 DEF ReadingNext, ArchiveStep

-----------------------------------------------------------------------------
(* What follows for a reader *)

LEMMA ReadingInvariant == ReadingSpec => []ReadingInv
<1>1. ReadingInit => ReadingInv
  BY ReadingBegins
<1>2. ReadingInv /\ [ReadingNext]_readingVars => ReadingInv'
  BY ReadingStep
<1> QED
  BY <1>1, <1>2, PTL DEF ReadingSpec

\* The owner is never offered a download whose file is not in the bucket, and a failed
\* job stays queued only when its last word was lost (process_export_background),
\* whichever calls fail and however many jobs run.
THEOREM ExportRowsAreTrue == ReadingSpec => []ExportRowIsTrue
<1>1. ReadingInv => ExportRowIsTrue
  BY DEF ReadingInv, JobFits, ExportRowIsTrue, ReadyHasFile, Offered, QueuedHasWorker
<1> QED
  BY <1>1, ReadingInvariant, PTL

\* The PDF of a memoir that had a narrative from the request to the last read holds no
\* memory or transcript in full (_render_memoir_html), whatever was rewritten meanwhile.
THEOREM OriginalsStayOut == ReadingSpec => []WordsStayOut
<1>1. ReadingInv => WordsStayOut
  BY DEF ReadingInv, JobFits, ReadingTypes, WordsStayOut
<1> QED
  BY <1>1, ReadingInvariant, PTL

\* A contributor in the PDF is one whom the Sources button shows, and is named by the
\* best kind of what they gave (fetch_sections_for_export), for any links and names.
THEOREM NamesAreRight == ReadingSpec => []AttributionIsTrue
<1>1. ASSUME ReadingInv PROVE AttributedIsShown
  <2> SUFFICES ASSUME NEW j \in Job, NEW v \in Visitor, NEW s, s = page[v].asked,
                      s # Null, s \in pdf[j].sections, pdf[j].cites[s] = page[v].cites[s]
               PROVE  {n[1] : n \in pdf[j].named[s]} = Contributors(page[v].originals)
    BY DEF AttributedIsShown
  <2>1. s \in Section /\ pdf[j].cites[s] \in SUBSET Memory
    <3>1. pdf[j] \in Pdf
      BY <1>1, JobNow
    <3> QED
      BY <3>1 DEF Pdf
  <2>2. pdf[j].named[s] = Attribution(pdf[j].cites[s])
    BY <1>1, <2>1 DEF ReadingInv, JobFits
  <2>3. page[v].originals = page[v].cites[s]
    BY <1>1 DEF ReadingInv, PageFits, PageIsFit
  <2> QED
    BY <2>1, <2>2, <2>3, AttributionIs
<1>2. ASSUME ReadingInv PROVE BestKindNamed
  <2> SUFFICES ASSUME NEW j \in Job, NEW s \in Section, NEW n \in pdf[j].named[s]
               PROVE  LET theirs == {m \in pdf[j].cites[s] : NameOf[m] = n[1]} IN
                      /\ n[2] = "audio" <=> \E m \in theirs : Recorded(m)
                      /\ n[2] = "text" <=> \A m \in theirs : LinksOf[m] = << >>
    BY DEF BestKindNamed
  <2>1. pdf[j].cites[s] \in SUBSET Memory
    BY <1>2 DEF ReadingInv, ReadingTypes
  <2>2. pdf[j].named[s] = Attribution(pdf[j].cites[s])
    BY <1>2 DEF ReadingInv, JobFits
  <2> QED
    BY <2>1, <2>2, AttributionIs
<1>3. ReadingInv => AttributionIsTrue
  BY <1>1, <1>2 DEF AttributionIsTrue
<1> QED
  BY <1>3, ReadingInvariant, PTL

\* What a reader has loaded (get_full_memoir_view, several reads) is the memories that
\* were published, and the sections last stored as the owner left them; or no section,
\* if the publication caught a generation between its delete and its insert, or that
\* insert had failed, which narrative_repository.py:198-202 holds to be unobservable.
\* Nothing is claimed of the citations, which a publication does not freeze.
THEOREM ReadersSeeTheBook == ReadingSpec => []PageIsTheBook
<1>1. ReadingInv => PageIsTheBook
  BY DEF ReadingInv, BookFits, PageFits, PageIsFit, PageIsTheBook
<1> QED
  BY <1>1, ReadingInvariant, PTL

=============================================================================
