---------------------------- MODULE PagedSearch ----------------------------
(***************************************************************************)
(* Searches whose pages are cached one by one: events and attractions      *)
(* (ActivitiesAdapter), text search and lookups (PlacesAdapter).  Several  *)
(* run at once and share the cached pages, while the provider's list       *)
(* changes under them.                                                     *)
(*                                                                         *)
(* Events are asked for by offset into the list of the moment; a place     *)
(* page names, by its token, the list of the page before it, even if that  *)
(* page comes out of the cache.  Activities check the quota in front of    *)
(* the cache and count when they send; places check behind the cache and   *)
(* count what was answered.  Of the cache only the promise of ReadThrough  *)
(* is used: what the provider once answered may be handed out or be gone.  *)
(***************************************************************************)
EXTENDS Integers, Sequences, SequencesExt, FiniteSets

CONSTANTS
    Callers,
    Sources,         \* which searches run: see Source
    Items,
    Lists,           \* what the provider lists, one version after the other
    Kinds,           \* the items of a kind, or all: what a query may ask for
    Windows,         \* trip windows, of events
    NoWindow,        \* of a query without dates
    StartDate,       \* of each event, without its year: a place in the calendar, or
                     \* 0 for a day that no year has (April 31)
    NoDate,          \* of an event whose date is missing or cannot be read
    YearEnd,         \* the last place in the calendar of a leap year
    LeapDay,         \* the place of the day that only leap years have
    LeapYears,
    Limits,          \* values of q.limit
    CallsPerWindow,  \* calls the quota admits until its window renews
    MaxBlind         \* bound: checks passed in one window with Redis away

\* chained: pages are named by tokens, not by offsets; size: records on a full
\* page; pages: the fan-out ceiling; dedups: one record is listed once; mute: a
\* refusal is an empty answer to the caller.
Source == [chained : BOOLEAN, size : Nat \ {0}, pages : Nat \ {0},
           dedups : BOOLEAN, mute : BOOLEAN]

Dates == [year : Nat, day : 1..YearEnd]
IsDate(d) == d.day \in 1..YearEnd /\ (d.day = LeapDay => d.year \in LeapYears)
NotAfter(d, e) == d.year < e.year \/ (d.year = e.year /\ d.day <= e.day)

ASSUME PagedAssumption ==
    /\ IsFiniteSet(Callers) /\ Callers # {}
    /\ CallsPerWindow \in Nat \ {0} /\ MaxBlind \in Nat
    /\ Sources \subseteq Source
    /\ Lists \in Seq(Seq(Items)) \ {<<>>}
    /\ Kinds \subseteq SUBSET Items
    /\ YearEnd \in Nat /\ LeapDay \in 1..(YearEnd - 1) /\ LeapYears \subseteq Nat
    /\ NoDate \notin 0..YearEnd /\ StartDate \in [Items -> 0..YearEnd \cup {NoDate}]
    /\ \A w \in Windows \ {NoWindow} :
          /\ {w.start, w.end} \subseteq {d \in Dates : IsDate(d)}
          /\ NotAfter(w.start, w.end)
    /\ Limits \subseteq Nat \ {0}

VARIABLES
    pc,          \* the await each search is suspended at
    query,       \* its limit and what it wants: items of a kind, or a window
    read,        \* the pages it was given: their number is the loop's index
    collected,   \* what it made of them
    result,      \* how each caller's last search ended
    given,       \* answers of the provider that the cache may hold
    now,         \* the version of the provider's list
    used,        \* calls counted in this quota window
    blind,       \* ghost: checks passed in it with Redis away
    source       \* which search this is about; it does not change

searchVars == <<pc, query, read, collected, result>>
quota == <<used, blind>>
moving == <<searchVars, given, now, quota>>
vars == <<moving, source>>

Queries == [limit : Limits, wants : IF source.dedups THEN Windows ELSE Kinds]

NoResult == [kind |-> "none"]
Start == [list |-> 0, from |-> 0]

\* A page of a list, as it was asked for: how many records, and from where.
\* List 0 is whatever the provider lists when it is asked.
Requests == [size : Nat, at : [list : 0..Len(Lists), from : Nat]]
Pages == [req : Requests, list : 1..Len(Lists)]

TypeOK ==
    /\ pc \in [Callers -> {"idle", "checking", "looking", "missed", "sent"}]
    /\ \A c \in Callers : /\ query[c] \in Queries
                          /\ read[c] \in Seq(Pages) /\ Len(read[c]) < source.pages
                          /\ collected[c] \in Seq(Items)
                          /\ Len(collected[c]) < query[c].limit
                          /\ result[c].kind \in {"none", "list", "refused", "failed"}
    /\ given \subseteq Pages
    /\ now \in DOMAIN Lists
    /\ blind \in 0..MaxBlind
    /\ used \in 0..(CallsPerWindow - 1 + Cardinality(Callers) + blind)

Init ==
    /\ source \in Sources
    /\ pc = [c \in Callers |-> "idle"]
    /\ query \in [Callers -> Queries]
    /\ read = [c \in Callers |-> <<>>] /\ collected = [c \in Callers |-> <<>>]
    /\ result = [c \in Callers |-> NoResult]
    /\ given = {} /\ now = 1 /\ used = 0 /\ blind = 0

Least(m, n) == IF m < n THEN m ELSE n
Take(s, n) == SubSeq(s, 1, Least(n, Len(s)))
Goto(c, label) == pc' = [pc EXCEPT ![c] = label]

\* The await in front of a page: the quota check, or the cache.
Ready == IF source.chained THEN "looking" ELSE "checking"

\* What a page holds, and the record the next one starts with.
Records(p) ==
    LET from == p.req.at.from
    IN  SubSeq(Lists[p.list], from + 1, Least(from + p.req.size, Len(Lists[p.list])))
Upto(p) == p.req.at.from + p.req.size

\* The search is over; its loop variables go with it.
End(c, r) ==
    /\ Goto(c, "idle")
    /\ result' = [result EXCEPT ![c] = r]
    /\ read' = [read EXCEPT ![c] = <<>>]
    /\ collected' = [collected EXCEPT ![c] = <<>>]
    /\ UNCHANGED query

\* What is returned, and how it came about: the pages and whether a refusal
\* cut them short.
List(c, items, pages, cut) ==
    [kind |-> "list", items |-> Take(items, query[c].limit), pages |-> pages, cut |-> cut]

---------------------------------------------------------------------------
(* Plausible slips in the code, each of which a property below must catch.  *)
(* None of them is part of the specification.                               *)

\* The refusal is returned whatever was collected.
CutShortRefuses(c) == End(c, [kind |-> "refused", pages |-> read[c]])

\* The next page is asked for by its number, without the token.
NextByNumber(c) == [list |-> 0, from |-> Upto(Last(read[c]))]

\* Every page is appended as it comes.
AddAlways(list, item) == Append(list, item)

\* limit // 10 pages.
FloorOfPages(limit) ==
    IF source.chained \/ limit < source.size THEN 1
    ELSE Least(source.pages, limit \div source.size)

\* `>` for `>=` in the check where the call is made.
SendAtLimit(c) ==
    /\ source.chained /\ pc[c] = "missed"
    /\ IF used <= CallsPerWindow
       THEN Goto(c, "sent") /\ UNCHANGED <<query, read, collected, result>>
       ELSE End(c, [kind |-> "failed"])
    /\ UNCHANGED <<given, now, quota>>

\* Only the year the trip begins in is tried.
InWindowFirstYear(day, w) ==
    \/ w = NoWindow \/ day = NoDate
    \/ /\ IsDate([year |-> w.start.year, day |-> day])
       /\ day >= w.start.day
       /\ w.end.year > w.start.year \/ day <= w.end.day

---------------------------------------------------------------------------
(* One search *)

Search(c, q) ==
    /\ pc[c] = "idle"
    /\ Goto(c, Ready)
    /\ query' = [query EXCEPT ![c] = q]
    /\ result' = [result EXCEPT ![c] = NoResult]
    /\ UNCHANGED <<read, collected, given, now, quota>>

\* A refusal ends the search with what it has; with nothing it is the result,
\* or an empty answer if the caller has no use for a refusal.
Refusal(c) ==
    IF source.mute THEN List(c, <<>>, read[c], TRUE)
    ELSE [kind |-> "refused", pages |-> read[c]]
CutShort(c) ==
    End(c, IF collected[c] = <<>> THEN Refusal(c) ELSE List(c, collected[c], read[c], TRUE))

\* What the request of the next page names: an offset or a token.
Offset(c) == [list |-> 0, from |-> Len(read[c]) * source.size]
NextToken(c) == [list |-> Last(read[c]).list, from |-> Upto(Last(read[c]))]
Request(c) ==
    IF source.chained
    THEN [size |-> Least(query[c].limit - Len(collected[c]), source.size),
          at |-> IF read[c] = <<>> THEN Start ELSE NextToken(c)]
    ELSE [size |-> source.size, at |-> Offset(c)]

\* Activities: the quota check in front of the cache.
CheckFirst(c) ==
    /\ pc[c] = "checking"
    /\ IF used < CallsPerWindow
       THEN Goto(c, "looking") /\ UNCHANGED <<query, read, collected, result>>
       ELSE CutShort(c)
    /\ UNCHANGED <<given, now, quota>>

\* _in_window: whether some year of the trip puts the event inside the range.
\* No window and no readable date let everything through.
InWindow(day, w) ==
    \/ w = NoWindow
    \/ day = NoDate
    \/ \E y \in w.start.year..w.end.year :
          LET candidate == [year |-> y, day |-> day]
          IN  IsDate(candidate) /\ NotAfter(w.start, candidate) /\ NotAfter(candidate, w.end)

\* The records that normalize and lie in the window, or are of the kind.
Passes(item, wants) ==
    IF source.dedups THEN InWindow(StartDate[item], wants) ELSE item \in wants

\* One record added to what is collected, with its id remembered in `seen`.
Add(list, item) ==
    IF source.dedups /\ Contains(list, item) THEN list ELSE Append(list, item)

\* The records of a page that pass, added one after the other.
Collect(list, records, wants) ==
    LET upto[n \in 0..Len(records)] ==
            IF n = 0 THEN list
            ELSE IF Passes(records[n], wants) THEN Add(upto[n - 1], records[n])
            ELSE upto[n - 1]
    IN  upto[Len(records)]

\* The loop: how many pages, and when one is the last.
Ceiling(limit) ==
    IF source.chained THEN source.pages
    ELSE Least(source.pages, (limit + source.size - 1) \div source.size)
IsShort(p) ==
    IF source.chained THEN Upto(p) >= Len(Lists[p.list]) ELSE Len(Records(p)) < source.size
IsLast(c, p, got) ==
    IsShort(p) \/ Len(got) >= query[c].limit \/ Len(read[c]) + 1 = Ceiling(query[c].limit)

\* A page has arrived, out of the cache or not.
Arrive(c, p) ==
    LET got == Collect(collected[c], Records(p), query[c].wants)
        pages == Append(read[c], p)
    IN  IF IsLast(c, p, got)
        THEN End(c, List(c, got, pages, FALSE))
        ELSE /\ Goto(c, Ready)
             /\ read' = [read EXCEPT ![c] = pages]
             /\ collected' = [collected EXCEPT ![c] = got]
             /\ UNCHANGED <<query, result>>

\* Either check lets a call pass at any count if Redis does not answer it.
AdmitBlind(c) ==
    /\ \/ pc[c] = "checking" /\ Goto(c, "looking")
       \/ source.chained /\ pc[c] = "missed" /\ Goto(c, "sent")
    /\ blind < MaxBlind
    /\ blind' = blind + 1
    /\ UNCHANGED <<query, read, collected, result, given, now, used>>

\* increment() counts, whatever others have counted since the check; or not, if
\* Redis does not answer.
Counts ==
    /\ used' \in {used, used + 1}
    /\ UNCHANGED blind

\* get_or_fetch has the page under the key of the request.
Hit(c) ==
    /\ pc[c] = "looking"
    /\ \E p \in given : p.req = Request(c) /\ Arrive(c, p)
    /\ UNCHANGED <<given, now, quota>>

Miss(c) ==
    /\ pc[c] = "looking"
    /\ Goto(c, "missed")
    /\ UNCHANGED <<query, read, collected, result, given, now, quota>>

\* _get: counted, then sent.
CountAndSend(c) ==
    /\ ~source.chained /\ pc[c] = "missed"
    /\ Goto(c, "sent")
    /\ Counts
    /\ UNCHANGED <<query, read, collected, result, given, now>>

\* _call: the quota is checked in the fetch, and _QuotaSignal unwinds it.
CheckAndSend(c) ==
    /\ source.chained /\ pc[c] = "missed"
    /\ IF used < CallsPerWindow
       THEN Goto(c, "sent") /\ UNCHANGED <<query, read, collected, result>>
       ELSE CutShort(c)
    /\ UNCHANGED <<given, now, quota>>

\* The provider's answer is counted (places) and given to the cache.  A token
\* leads on in the list that issued it.
Answer(c) ==
    LET req == Request(c)
        p == [req |-> req, list |-> IF req.at.list = 0 THEN now ELSE req.at.list]
    IN  /\ pc[c] = "sent"
        /\ IF source.chained THEN Counts ELSE UNCHANGED quota
        /\ given' = given \cup {p}
        /\ Arrive(c, p)
        /\ UNCHANGED now

\* An error, or a token the provider no longer knows: the search raises, and
\* what it had collected is lost.
AnswerError(c) ==
    /\ pc[c] = "sent"
    /\ End(c, [kind |-> "failed"])
    /\ UNCHANGED <<given, now, quota>>

---------------------------------------------------------------------------
(* The environment *)

Crash(c) ==
    /\ pc[c] # "idle"
    /\ End(c, NoResult)
    /\ UNCHANGED <<given, now, quota>>

\* The provider lists something else.
ListChanges ==
    /\ now < Len(Lists)
    /\ now' = now + 1
    /\ UNCHANGED <<searchVars, given, quota>>

NewWindow ==
    /\ used' = 0 /\ blind' = 0
    /\ UNCHANGED <<searchVars, given, now>>

Next ==
    /\ \/ \E c \in Callers :
             \/ \E q \in Queries : Search(c, q)
             \/ CheckFirst(c) \/ CheckAndSend(c) \/ AdmitBlind(c)
             \/ Hit(c) \/ Miss(c) \/ CountAndSend(c) \/ Answer(c) \/ AnswerError(c) \/ Crash(c)
       \/ ListChanges \/ NewWindow
    /\ UNCHANGED source

Spec == Init /\ [][Next]_vars

---------------------------------------------------------------------------
(* Properties *)

Returned == {r \in {result[c] : c \in Callers} : r.kind = "list"}
OfList(pages, v) == \A i \in DOMAIN pages : pages[i].list = v

\* Places: the pages of a search are consecutive pages of one and the same
\* list of the provider, whoever had them cached, at whatever page size, and
\* however the list has changed since.
OneList ==
    source.chained =>
        \A r \in Returned : \A i \in 2..Len(r.pages) :
            /\ r.pages[i].list = r.pages[i - 1].list
            /\ r.pages[i].req.at.from = Upto(r.pages[i - 1])

\* Events: nothing is listed twice, though the pages may stem from different
\* versions of a list that moved between them.
NoDuplicates ==
    source.dedups =>
        \A r \in Returned : \A i, j \in DOMAIN r.items : r.items[i] = r.items[j] => i = j

\* The days of a trip, one after the other, from its first day to its last: an
\* event belongs to it if one of them is its day.
Tomorrow(d) ==
    LET next == IF d.day = YearEnd THEN [year |-> d.year + 1, day |-> 1]
                ELSE [d EXCEPT !.day = @ + 1]
    IN  IF IsDate(next) THEN next ELSE [next EXCEPT !.day = @ + 1]
TripDays(w) ==
    LET length == YearEnd * (w.end.year - w.start.year + 1)
        day[n \in 0..length] == IF n = 0 THEN w.start ELSE Tomorrow(day[n - 1])
    IN  {day[n] : n \in {m \in 0..length : w.end \in {day[l] : l \in m..length}}}
Belongs(item, wants) ==
    IF source.dedups
    THEN wants = NoWindow \/ StartDate[item] \in {NoDate} \cup {d.day : d \in TripDays(wants)}
    ELSE item \in wants

\* The records that a search for w should list, and that items lists them, in
\* their order, as far as it goes.
RecordsOf(pages) == FlattenSeq([i \in DOMAIN pages |-> Records(pages[i])])
Kept(records, w) ==
    {i \in DOMAIN records :
        /\ Belongs(records[i], w)
        /\ source.dedups => \A j \in 1..(i - 1) : records[j] # records[i]}
Leads(items, records, w) ==
    \A i \in Kept(records, w) :
        LET place == Cardinality({j \in Kept(records, w) : j <= i})
        IN  place <= Len(items) => items[place] = records[i]

\* A refusal loses nothing: the answer holds all that was wanted on the pages
\* before it, and is a refusal only if there was nothing.  Only mute lookups
\* give an empty list for a refusal.
PartialBeatsNone ==
    \A c \in Callers :
        LET r == result[c]
            w == query[c].wants
            records == RecordsOf(r.pages)
        IN  /\ r.kind = "refused" => Kept(records, w) = {}
            /\ r.kind = "list" /\ r.cut =>
                  /\ Len(r.items) = Cardinality(Kept(records, w))
                  /\ Leads(r.items, records, w)
                  /\ r.items # <<>> \/ source.mute

\* A list that no refusal cut short, with pages of one version, is that
\* version's list as far as the search looked; and it looked as far as the
\* limit, the end or the fan-out ceiling.
WholeMeansAll ==
    \A c \in Callers : \A v \in DOMAIN Lists :
        LET r == result[c]
            q == query[c]
            upto == Upto(Last(r.pages))
            records == SubSeq(Lists[v], 1, Least(upto, Len(Lists[v])))
        IN  r.kind = "list" /\ ~r.cut /\ OfList(r.pages, v) =>
                /\ Len(r.items) = Least(q.limit, Cardinality(Kept(records, q.wants)))
                /\ Leads(r.items, records, q.wants)
                /\ \/ Len(r.items) = q.limit
                   \/ upto >= Len(Lists[v])
                   \/ Len(r.pages) = source.pages
                   \/ ~source.chained /\ upto >= q.limit
=============================================================================
