--------------------------------- MODULE Client ---------------------------------
(***************************************************************************)
(* The reading calls of NetBoxClient (list, find, get_object,              *)
(* object_changes) and the queries of netbox_query, request by request,    *)
(* while others change NetBox.                                             *)
(*                                                                         *)
(* The world is the set of objects the call's filters match, numbered in   *)
(* the order NetBox lists them in: what others create, delete, or edit so  *)
(* that it starts or stops to match may appear and vanish anywhere in it.  *)
(* NetBox answers one request from one state of the world.                 *)
(***************************************************************************)
EXTENDS Naturals, Sequences, FiniteSets

CONSTANTS
    Objects,      \* what may match, as numbers
    Calls,        \* calls to make: [kind, max, page, offset, id, fields]
    PageCap,      \* NetBox's MAX_PAGE_SIZE
    MaxEdits,     \* bound: changes others make during the call
    Statuses      \* how a request may fail: 0 stands for the transport,
                  \* 200 for a body that is not what the caller needs

\* find asks for two objects and needs both in one page.
ASSUME ClientAssumption ==
    /\ Objects \subseteq Nat /\ IsFiniteSet(Objects)
    /\ PageCap \in Nat \ {0, 1} /\ MaxEdits \in Nat
    /\ Statuses \subseteq {0, 200, 403, 404, 500}
    /\ \A c \in Calls :
          /\ c.kind \in {"list", "find", "get", "changes"}
          /\ c.max \in Nat /\ c.page \in Nat \ {0} /\ c.offset \in Nat
          /\ c.kind = "find" => c.max = 2 /\ c.page >= 2 /\ c.offset = 0

VARIABLES
    world,
    call,
    asking,    \* the call is under way
    endpoint,  \* which of CHANGELOG_ENDPOINTS, 1 for any other call
    offset, results,
    known,     \* the object get_object returned to netbox_query
    answer,    \* how the call ended: [kind, count, rows]
    \* history
    requests, failures,
    seen,      \* states of the world since the call began
    came, left \* objects that appeared and vanished, with repetition

progress == <<call, asking, endpoint, offset, results, known, answer>>
vars == <<world, progress, requests, failures, seen, came, left>>

Pending == [kind |-> "none", count |-> 0, rows |-> <<>>]

Init ==
    /\ world \in SUBSET Objects /\ call \in Calls
    /\ asking = TRUE /\ endpoint = 1 /\ offset = call.offset /\ results = <<>> /\ known = {}
    /\ answer = Pending
    /\ requests = 0 /\ failures = {} /\ seen = {world} /\ came = 0 /\ left = 0

-----------------------------------------------------------------------------
(* Everybody else.                                                         *)

Edit ==
    /\ asking /\ came + left < MaxEdits
    /\ \E o \in Objects :
          \/ o \notin world /\ world' = world \cup {o} /\ came' = came + 1 /\ UNCHANGED left
          \/ o \in world /\ world' = world \ {o} /\ left' = left + 1 /\ UNCHANGED came
    /\ seen' = seen \cup {world'}
    /\ UNCHANGED <<progress, requests, failures>>

-----------------------------------------------------------------------------
(* One request.                                                            *)

Asks == asking /\ requests' = requests + 1 /\ UNCHANGED <<world, call, seen, came, left>>
Ends(kind, count, rows) ==
    /\ asking' = FALSE /\ answer' = [kind |-> kind, count |-> count, rows |-> rows]
    /\ UNCHANGED <<endpoint, offset, results, known>>

Least(a, b) == IF a < b THEN a ELSE b
Upto(o) == {w \in world : w <= o}
Listed == [n \in 1..Cardinality(world) |-> CHOOSE o \in world : Cardinality(Upto(o)) = n]
\* Mutant: find asks for one object at a time.
LimitOneByOne == IF call.kind = "find" THEN 1 ELSE Least(Least(call.page, call.max), PageCap)
Limit == Least(IF call.max > 0 THEN Least(call.page, call.max) ELSE call.page, PageCap)
Page == SubSeq(Listed, offset + 1, Least(offset + Limit, Len(Listed)))
HasNext == offset + Limit < Len(Listed)

\* Mutant: the pages' size is compared with nothing but what NetBox links to.
LastOfLinks(rows) == ~HasNext \/ Page = <<>>
IsLast(rows) == Len(rows) >= call.max \/ ~HasNext \/ Page = <<>>

\* Mutant: the next page is the one the limit suggests.
NextByRequestedLimit == offset + (IF call.max > 0 THEN Least(call.page, call.max) ELSE call.page)
NextOffset == offset + Len(Page)

Found(total, rows) ==
    IF total = 1 /\ rows # <<>> THEN "found" ELSE IF total = 0 THEN "absent" ELSE "several"

\* A page of list, and what the caller of list makes of the last one.
Lists ==
    /\ call.kind # "get" /\ Asks
    /\ LET rows == results \o Page
           total == Len(Listed)
           shown == SubSeq(rows, 1, Least(call.max, Len(rows))) IN
       IF IsLast(rows)
       THEN Ends(IF call.kind = "find" THEN Found(total, shown) ELSE "rows", total, shown)
       ELSE /\ results' = rows /\ offset' = NextOffset
            /\ UNCHANGED <<asking, endpoint, known, answer>>
    /\ UNCHANGED failures

\* get_object, and netbox_query's second request when fields were asked for.
Gets ==
    /\ call.kind = "get" /\ Asks
    /\ \/ /\ call.id \in world
          /\ IF call.fields /\ known = {}
             THEN known' = {call.id} /\ UNCHANGED <<asking, endpoint, offset, results, answer>>
             ELSE Ends("found", 1, <<call.id>>)
       \/ call.id \notin world /\ known = {} /\ Ends("absent", 0, <<>>)
       \/ call.id \notin world /\ known # {} /\ Ends("error", 0, <<>>)
    /\ UNCHANGED failures

\* Mutant: the other change log is tried whatever is wrong with the first.
FallsThroughOnAny(status) == call.kind = "changes" /\ endpoint = 1
\* object_changes: a NetBox without the first endpoint is asked at the other.
FallsThrough(status) == call.kind = "changes" /\ endpoint = 1 /\ status = 404

\* The request raises, or what came back does not do: the first GET of an
\* object passes for "not there", the second leaves the first one's object.
Fails(status) ==
    /\ Asks
    /\ status = 404 => call.kind # "get"
    /\ failures' = failures \cup {status}
    /\ IF FallsThrough(status)
       THEN /\ endpoint' = 2 /\ offset' = call.offset /\ results' = <<>>
            /\ UNCHANGED <<asking, known, answer>>
       ELSE IF call.kind = "get" /\ status = 200
            THEN IF known = {} THEN Ends("absent", 0, <<>>) ELSE Ends("found", 1, <<call.id>>)
            ELSE Ends("error", 0, <<>>)

-----------------------------------------------------------------------------

Next == Edit \/ Lists \/ Gets \/ \E status \in Statuses : Fails(status)

Spec == Init /\ [][Next]_vars

-----------------------------------------------------------------------------
(* Properties.                                                             *)

Throughout == {o \in Objects : \A w \in seen : o \in w}
Sometime == UNION seen
Shown == {answer.rows[n] : n \in DOMAIN answer.rows}

\* A listing of a world in motion that was not cut at max_results, or that
\* netbox_query does not call truncated, invents nothing, misses no more
\* objects than vanished while it was paged and repeats no more than appeared:
\* the paging itself skips nothing and shows nothing twice, whatever page size
\* NetBox grants (client.list).
ListingDriftsWithEdits ==
    LET whole == Len(answer.rows) < call.max \/ answer.count <= Len(answer.rows) IN
    (answer.kind = "rows" /\ call.offset = 0 /\ whole) =>
        /\ Shown \subseteq Sometime
        /\ Cardinality(Throughout \ Shown) <= left
        /\ Len(answer.rows) - Cardinality(Shown) <= came

\* What find and get_object answer was true at one moment of the call, so
\* that planner and executor never act on a state NetBox was never in: the
\* only match was the only one, and an absence was one.  A detail body that
\* is no object is the exception.
LookupsHoldAtOneMoment ==
    200 \notin failures =>
        /\ (call.kind = "find" /\ answer.kind = "found") => \E w \in seen : w = {answer.rows[1]}
        /\ (call.kind = "get" /\ answer.kind = "found") => call.id \in Sometime
        /\ (call.kind = "find" /\ answer.kind \in {"absent", "several"}) =>
              \E w \in seen : Cardinality(w) = answer.count
        /\ (call.kind = "get" /\ answer.kind = "absent") => call.id \notin Throughout

\* A call ends: others who keep adding objects cannot keep a listing going
\* for more requests than results it may return, at each endpoint.
RequestsAreBounded ==
    call.kind # "get" => requests <= endpoint * (IF call.max = 0 THEN 1 ELSE call.max)

\* A listing never comes with a failed request behind it, but for the change
\* log NetBox does not have: "Raises NetBoxError when neither endpoint exists
\* or the token may not read the log (403)".
ErrorsAreNotListings ==
    answer.kind \in {"rows", "several"} => failures \subseteq {404} /\ (failures # {} => endpoint = 2)
================================================================================
