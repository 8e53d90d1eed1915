------------------------------ MODULE Sharing ------------------------------
(***************************************************************************)
(* Share links of a published memoir: requests of the owner that create,   *)
(* change and revoke one, readers who unlock it and get a token that is    *)
(* good for a day, and what they then read and write with it, along two    *)
(* paths: the routes under /api/share/{token}, which look the link up each *)
(* time, and those of the owner's site that also let readers in, which go  *)
(* by the token alone: /api/comments, and a memoir's narrative and sources *)
(* under /api/memoirs.                                                     *)
(*                                                                         *)
(* A call of the database is one step with a Reply as in Proposal.  No     *)
(* step is fair: a request whose process dies takes no further step.       *)
(***************************************************************************)
EXTENDS Naturals, FiniteSets

CONSTANTS
  First,        \* the link publish_memoir_tx has made
  Creator,      \* requests to create a link, each with the row it makes
  Changer,      \* requests to change it
  Revoker,      \* requests to revoke it
  Reader,       \* requests to unlock it, each with the token it gets
  Visit,        \* requests of readers
  Payload,      \* what a change may ask for
  None,
  Faulty        \* the calls that may fail

VARIABLES
  link,         \* rows of memoir_link
  policy,       \* memoir.comment_policy is anyone_who_can_view
  token,        \* the token each reader has
  comment,      \* rows of comment, by the visit that wrote them
  pc,           \* the next call of each request, or how it ended
  arg,          \* what each request asks for, and what it has read
  raced,        \* ghost: two requests to create a link were at work at once
  opened,       \* ghost: how often a link's open_count was written
  crossed,      \* ghost: the links counted by two requests at work at once
  configured,   \* ghost: the links an owner has given a password or opened
  gone,         \* ghost: the links revoked before each visit began
  on            \* ghost: the visits during which the policy was on

ghosts == <<raced, opened, crossed, configured, gone, on>>
vars == <<link, policy, token, comment, pc, arg, ghosts>>

-----------------------------------------------------------------------------

Link == {First} \cup Creator
Counting == Reader \cup Visit
Request == Creator \cup Changer \cup Revoker \cup Counting
MaxOpens == Cardinality(Counting)

Row == [revoked : BOOLEAN, visibility : {"private", "link", "password"},
        password : BOOLEAN, expires : {"never", "later", "past"}, opens : 0 .. MaxOpens]
NewRow == [revoked |-> FALSE, visibility |-> "password",
           password |-> FALSE, expires |-> "never", opens |-> 0]

Token == [link : Link, comment : BOOLEAN, expired : BOOLEAN]
Comment == [hidden : BOOLEAN, deleted : BOOLEAN]

Change == [policy : BOOLEAN \cup {None}, password : {"set", "clear", None},
           visibility : {"private", "link", "password", None},
           expires : {"later", "past", None}]

\* page and read are the two routes of a link that show the memoir, and post the one
\* that writes a comment; show and dual do the same and go by the token alone.
TokenOnly == {"show", "dual"}
Kind == {"page", "read", "post"} \cup TokenOnly

Call == {"request", "insert", "policy", "change", "revoke", "memoir", "count"}
Over == {"done", "refused", "failed", "returned"}

ASSUME SharingAssumption ==
  /\ First \notin Creator
  /\ Faulty \subseteq Call
  /\ Payload \subseteq Change
  /\ None \notin Link \cup BOOLEAN

\* A request is of one kind, and None is no row.
ASSUME RequestAssumption ==
  /\ IsFiniteSet(Counting)
  /\ Creator \cap (Changer \cup Revoker \cup Counting) = {}
  /\ Changer \cap (Revoker \cup Counting) = {}
  /\ Revoker \cap Counting = {}
  /\ Reader \cap Visit = {}
  /\ None \notin Row \cup Token \cup Comment

Reply(call) == IF call \in Faulty THEN {"ok", "error", "lost"} ELSE {"ok"}
Wrote(reply) == reply # "error"
Answered(reply) == reply = "ok"

Rows == {l \in Link : link[l] # None}
Live == {l \in Rows : ~ link[l].revoked}

-----------------------------------------------------------------------------
(* Variants with a plausible bug, which the properties must notice *)

EvenLive(c) == "insert"                                  \* create without get
NotRevoked(l) == link[l].visibility # "private" /\ link[l].expires # "past"
NoHash(row, right) == right                              \* none set is none asked
Snapshot(v) == token[arg[v].reader].comment              \* as at the unlock
Overwrite(row, ch) == [row EXCEPT !.visibility = ch.visibility]  \* if not given too
OpenedTwice(n) == n + 2                                  \* per unlock and per read

-----------------------------------------------------------------------------
(* The checks of the code *)

\* resolve_live_link, and the same checks of read_shared_memoir
Usable(l) == ~ link[l].revoked /\ link[l].visibility # "private" /\ link[l].expires # "past"

\* get_share_context, and expected_share_link_id of resolve_memoir_access
OfThisLink(t, l) == t.link = l

PasswordOk(row, right) == row.password /\ right
Plus(n) == n + 1
CanComment(v) == policy

Goto(p, to) == pc' = [pc EXCEPT ![p] = to]
Then(p, reply, next) == Goto(p, IF Answered(reply) THEN next ELSE "failed")

-----------------------------------------------------------------------------
(* The owner's requests; all find the link by get_active_link, which takes *)
(* whichever comes first if there are two                                  *)

AfterGet(c) == IF Live = {} THEN "insert" ELSE "returned"

\* create_or_get_share_link
Get(c) ==
  /\ pc[c] = "request"
  /\ Goto(c, AfterGet(c))
  /\ raced' = (raced \/ (Live = {} /\ \E d \in Creator : pc[d] = "insert"))
  /\ UNCHANGED <<link, policy, token, comment, arg, opened, crossed, configured, gone, on>>

\* Nothing in the schema keeps a second live link out.
InsertLink(c) ==
  /\ pc[c] = "insert"
  /\ \E reply \in Reply("insert") :
       /\ Then(c, reply, "done")
       /\ link' = IF Wrote(reply) THEN [link EXCEPT ![c] = NewRow] ELSE link
  /\ UNCHANGED <<policy, token, comment, arg, ghosts>>

NoRowChange(ch) == ch.password = None /\ ch.visibility = None /\ ch.expires = None
AfterPolicy(ch) == IF NoRowChange(ch) THEN "done" ELSE "change"

\* update_share_link
BeginChange(u) ==
  /\ pc[u] = "request"
  /\ IF Live = {}
       THEN Goto(u, "refused") /\ UNCHANGED arg
       ELSE \E l \in Live, ch \in Payload :
              /\ arg' = [arg EXCEPT ![u] = [link |-> l, change |-> ch]]
              /\ Goto(u, IF ch.policy # None THEN "policy" ELSE AfterPolicy(ch))
  /\ UNCHANGED <<link, policy, token, comment, ghosts>>

\* The toggle for comments is of the memoir, and is written first.
ChangePolicy(u) ==
  /\ pc[u] = "policy"
  /\ \E reply \in Reply("policy") :
       /\ Then(u, reply, AfterPolicy(arg[u].change))
       /\ policy' = IF Wrote(reply) THEN arg[u].change.policy ELSE policy
       /\ on' = IF policy' THEN {v \in Visit : pc[v] \notin {"request"} \cup Over} \cup on ELSE on
  /\ UNCHANGED <<link, token, comment, arg, raced, opened, crossed, configured, gone>>

Changed(row, ch) ==
  [row EXCEPT !.password = IF ch.password = None THEN @ ELSE ch.password = "set",
              !.visibility = IF ch.visibility = None THEN @ ELSE ch.visibility,
              !.expires = IF ch.expires = None THEN @ ELSE ch.expires]

\* By id: a link revoked meanwhile is changed too.
ChangeLink(u) ==
  LET l == arg[u].link IN
  /\ pc[u] = "change"
  /\ \E reply \in Reply("change") :
       /\ Then(u, reply, "done")
       /\ IF Wrote(reply)
            THEN /\ link' = [link EXCEPT ![l] = Changed(@, arg[u].change)]
                 /\ configured' = IF arg[u].change.password = "set"
                                       \/ arg[u].change.visibility = "link"
                                    THEN configured \cup {l} ELSE configured
            ELSE UNCHANGED <<link, configured>>
  /\ UNCHANGED <<policy, token, comment, arg, raced, opened, crossed, gone, on>>

\* revoke_share_link
BeginRevoke(v) ==
  /\ pc[v] = "request"
  /\ IF Live = {}
       THEN Goto(v, "refused") /\ UNCHANGED arg
       ELSE \E l \in Live : arg' = [arg EXCEPT ![v] = [link |-> l]] /\ Goto(v, "revoke")
  /\ UNCHANGED <<link, policy, token, comment, ghosts>>

Revoke(v) ==
  /\ pc[v] = "revoke"
  /\ \E reply \in Reply("revoke") :
       /\ Then(v, reply, "done")
       /\ link' = IF Wrote(reply) THEN [link EXCEPT ![arg[v].link].revoked = TRUE] ELSE link
  /\ UNCHANGED <<policy, token, comment, arg, ghosts>>

\* expires_at passes, and so does a token's day.
LinkExpires(l) ==
  /\ l \in Rows /\ link[l].expires = "later"
  /\ link' = [link EXCEPT ![l].expires = "past"]
  /\ UNCHANGED <<policy, token, comment, pc, arg, ghosts>>

TokenExpires(r) ==
  /\ token[r] # None /\ ~ token[r].expired
  /\ token' = [token EXCEPT ![r].expired = TRUE]
  /\ UNCHANGED <<link, policy, comment, pc, arg, ghosts>>

-----------------------------------------------------------------------------
(* unlock_share_link *)

\* Between its read of open_count and its write.
Opening(q) == pc[q] = "count" \/ (q \in Reader /\ pc[q] = "memoir")

\* Another request for the same link is there too.
Crossing(p, l) == \E q \in Counting \ {p} : Opening(q) /\ arg[q].link = l

\* resolve_live_link: the link ...
BeginUnlock(r) ==
  \E l \in Rows :
    /\ pc[r] = "request"
    /\ arg' = [arg EXCEPT ![r] = [link |-> l, row |-> link[l], comment |-> FALSE]]
    /\ Goto(r, IF Usable(l) THEN "memoir" ELSE "refused")
    /\ crossed' = IF Crossing(r, l) THEN crossed \cup {l} ELSE crossed
    /\ UNCHANGED <<link, policy, token, comment, raced, opened, configured, gone, on>>

\* ... the memoir, and the password as the link had it.
Unlock(r) ==
  /\ pc[r] = "memoir"
  /\ \E right \in BOOLEAN :
       Goto(r, IF arg[r].row.visibility = "link" \/ PasswordOk(arg[r].row, right)
                 THEN "count" ELSE "refused")
  /\ arg' = [arg EXCEPT ![r].comment = policy]
  /\ UNCHANGED <<link, policy, token, comment, ghosts>>

\* increment_open_count writes what was read, and one.  A reader gets the token
\* only after it.
Count(p) ==
  LET l == arg[p].link IN
  /\ pc[p] = "count"
  /\ \E reply \in Reply("count") :
       /\ Then(p, reply, "done")
       /\ link' = IF Wrote(reply) THEN [link EXCEPT ![l].opens = Plus(arg[p].row.opens)] ELSE link
       /\ opened' = IF Wrote(reply) THEN [opened EXCEPT ![l] = @ + 1] ELSE opened
       /\ token' = IF p \in Reader /\ Answered(reply)
                     THEN [token EXCEPT ![p] = [link |-> l, comment |-> arg[p].comment,
                                                expired |-> FALSE]]
                     ELSE token
  /\ UNCHANGED <<policy, comment, arg, raced, crossed, configured, gone, on>>

-----------------------------------------------------------------------------
(* What a reader asks for, under the URL of any link, with a token *)

Arrive(v, r, l, kind) ==
  /\ pc[v] = "request" /\ token[r] # None
  /\ arg' = [arg EXCEPT ![v] = [link |-> l, row |-> link[l], reader |-> r, kind |-> kind]]
  /\ gone' = [gone EXCEPT ![v] = Rows \ Live]
  /\ on' = IF policy THEN on \cup {v} ELSE on
  /\ UNCHANGED <<link, policy, token, comment, raced, opened, configured>>

\* get_share_context up to its read of the link
BeginVisit(v) ==
  \E r \in Reader, l \in Rows, kind \in {"page", "post"} :
    /\ Arrive(v, r, l, kind)
    /\ Goto(v, IF ~ token[r].expired /\ Usable(l) THEN "memoir" ELSE "refused")
    /\ UNCHANGED crossed

\* ... and from there: whether it may comment is the memoir's answer of now, not
\* the token's.  A page is read from here on without a write.
Resolve(v) ==
  /\ pc[v] = "memoir"
  /\ Goto(v, CASE ~ OfThisLink(token[arg[v].reader], arg[v].link) -> "refused"
               [] OTHER -> IF arg[v].kind = "page" THEN "done"
                           ELSE IF CanComment(v) THEN "insert" ELSE "refused")
  /\ UNCHANGED <<link, policy, token, comment, arg, ghosts>>

\* read_shared_memoir checks the token itself, by resolve_memoir_access.
BeginRead(v) ==
  \E r \in Reader, l \in Rows :
    /\ Arrive(v, r, l, "read")
    /\ Goto(v, IF Usable(l) /\ ~ token[r].expired /\ OfThisLink(token[r], l)
                 THEN "count" ELSE "refused")
    /\ crossed' = IF Crossing(v, l) THEN crossed \cup {l} ELSE crossed

\* list_narrative_sections, get_narrative_sources and get_memory_comments: a token
\* that has not expired is enough, whatever has become of its link.
BeginShow(v) ==
  \E r \in Reader :
    /\ token[r] # None
    /\ Arrive(v, r, token[r].link, "show")
    /\ Goto(v, IF token[r].expired THEN "refused" ELSE "done")
    /\ UNCHANGED crossed

\* And so is it for create_new_comment, which asks the token for the policy too.
BeginDual(v) ==
  \E r \in Reader :
    /\ token[r] # None
    /\ Arrive(v, r, token[r].link, "dual")
    /\ Goto(v, IF ~ token[r].expired /\ token[r].comment THEN "insert" ELSE "refused")
    /\ UNCHANGED crossed

\* insert_reader_comment
InsertComment(v) ==
  /\ pc[v] = "insert"
  /\ \E reply \in Reply("insert") :
       /\ Then(v, reply, "done")
       /\ comment' = IF Wrote(reply)
                       THEN [comment EXCEPT ![v] = [hidden |-> FALSE, deleted |-> FALSE]]
                       ELSE comment
  /\ UNCHANGED <<link, policy, token, arg, ghosts>>

\* moderate_comment
Moderate(v) ==
  /\ comment[v] # None
  /\ comment' \in {[comment EXCEPT ![v].hidden = TRUE], [comment EXCEPT ![v].deleted = TRUE]}
  /\ UNCHANGED <<link, policy, token, pc, arg, ghosts>>

-----------------------------------------------------------------------------

Init ==
  /\ link = [l \in Link |-> IF l = First THEN NewRow ELSE None]
  /\ policy \in BOOLEAN
  /\ token = [r \in Reader |-> None]
  /\ comment = [v \in Visit |-> None]
  /\ pc = [p \in Request |-> "request"]
  /\ arg = [p \in Request |-> None]
  /\ raced = FALSE
  /\ opened = [l \in Link |-> 0]
  /\ crossed = {}
  /\ configured = {}
  /\ gone = [v \in Visit |-> {}]
  /\ on = {}

Next ==
  \/ \E c \in Creator : Get(c) \/ InsertLink(c)
  \/ \E u \in Changer : BeginChange(u) \/ ChangePolicy(u) \/ ChangeLink(u)
  \/ \E v \in Revoker : BeginRevoke(v) \/ Revoke(v)
  \/ \E r \in Reader : BeginUnlock(r) \/ Unlock(r) \/ TokenExpires(r)
  \/ \E p \in Counting : Count(p)
  \/ \E v \in Visit : BeginVisit(v) \/ Resolve(v) \/ BeginRead(v) \/ BeginShow(v)
                      \/ BeginDual(v) \/ InsertComment(v) \/ Moderate(v)
  \/ \E l \in Link : LinkExpires(l)

Spec == Init /\ [][Next]_vars

-----------------------------------------------------------------------------
(* Properties *)

TypeOK ==
  /\ link \in [Link -> Row \cup {None}]
  /\ policy \in BOOLEAN
  /\ token \in [Reader -> Token \cup {None}]
  /\ comment \in [Visit -> Comment \cup {None}]
  /\ pc \in [Request -> Call \cup Over]
  /\ \A p \in Request : arg[p] # None => arg[p].link \in Rows
  /\ raced \in BOOLEAN
  /\ opened \in [Link -> 0 .. MaxOpens]
  /\ crossed \cup configured \subseteq Rows
  /\ gone \in [Visit -> SUBSET Rows]
  /\ on \subseteq Visit

\* A memoir has one live link, unless two requests to create one were at work at
\* once.
LinksRaced == Cardinality(Live) > 1 => raced

\* A token is issued only for a link its owner has given a password or opened: the
\* one a publish makes opens for nobody.
InertUntilConfigured == \A r \in Reader : token[r] # None => token[r].link \in configured

\* The links are sound: of their types, one alive, and closed until configured.
LinksAreSound == TypeOK /\ LinksRaced /\ InertUntilConfigured

\* Under /api/share, revoking a link takes effect on a reader's very next request,
\* whatever links came after it.  (What goes by the token alone stays open to it for
\* the rest of its day: access_control.resolve_memoir_access reads no link.)
RevokedIsNextRequest ==
  \A v \in Visit :
    pc[v] = "done" /\ arg[v].kind \notin TokenOnly =>
      token[arg[v].reader].link \notin gone[v]

\* A comment written under /api/share was allowed at some moment of its request.
CommentsWereOn ==
  \A v \in Visit : comment[v] # None /\ arg[v].kind = "post" => v \in on

\* What a reader saw or wrote under /api/share was allowed, by the link and by the
\* comment policy of the moment, and not by what held when the token was issued.
VisitWasAllowed == RevokedIsNextRequest /\ CommentsWereOn

\* open_count is the number of openings, less those lost where two crossed.
OpensAddUp ==
  \A l \in Rows : link[l].opens <= opened[l] /\ (link[l].opens < opened[l] => l \in crossed)
=============================================================================
