------------------------- MODULE ReorgSubscriptions -------------------------
(***************************************************************************)
(* One reorg detector and its subscribers (the syncers of one network).    *)
(* The detector is started in a goroutine while the syncers subscribe, so  *)
(* loading the tracked blocks of the previous run and Subscribe interleave.*)
(* A pass scans the list of every subscriber concurrently, with a cache of *)
(* headers in common, and ends when all scans have ended.  What one scan   *)
(* and one syncer do to each other is the subject of EVMSync.              *)
(***************************************************************************)
EXTENDS Integers, Sequences, FiniteSets, SequencesExt

CONSTANTS
    NSubs,          \* subscribers are 1 .. NSubs, in the order of their ids
    Low, High,      \* block numbers
    Finalized,      \* the last finalized block: it and those before stay
    MaxNetReorgs    \* bound: how often a block is replaced

ASSUME SubscriptionsAssumption ==
    /\ NSubs \in Nat /\ Low \in Nat /\ High \in Nat /\ Finalized \in Nat
    /\ MaxNetReorgs \in Nat

VARIABLES
    net,       \* hash of each block: how often it was replaced
    rows,      \* tracked_block: for each subscriber, number -> hash
    have,      \* blocks each syncer has stored: number -> hash
    memory,    \* trackedBlocks and subscriptions of this process
    client,    \* the channel each syncer holds, and how far its Subscribe got
    enabled,   \* syncers that this process runs
    scan,      \* errgroup of the pass: the headers each goroutine has left
    cache,     \* headersCache of the pass
    excuse     \* what happened that the code does not cope with

subVars == <<net, rows, have, memory, client, enabled, scan, cache, excuse>>

Subs   == 1 .. NSubs
NoList == <<"no list">>
NoScan == [pc |-> "none", hdrs |-> << >>]
Empty  == [n \in {} |-> 0]

With(f, n, v)    == [m \in DOMAIN f \cup {n} |-> IF m = n THEN v ELSE f[m]]
Without(f, ns)   == [m \in DOMAIN f \ ns |-> f[m]]

Through(k, hash) == [n \in Low .. k |-> hash]

\* A process starts with what the one before has left: each syncer has stored
\* some blocks, and their rows.  Rows above 2 are never removed, so those of
\* blocks that were dropped in a reorg are there as well.  L1 or L2 may have
\* moved on since, and other components may be enabled.
SubInit ==
    /\ \E stored, dropped \in [Subs -> Low - 1 .. High] :
          /\ have = [s \in Subs |-> Through(stored[s], 0)]
          /\ rows = [s \in Subs |-> [n \in Low .. dropped[s] |->
                                        IF n <= stored[s] THEN 0 ELSE -1]]
          /\ \A s \in Subs : stored[s] <= dropped[s] /\ (dropped[s] > stored[s] => stored[s] >= Finalized)
    /\ \E k \in Finalized + 1 .. High + 1 :
          net = [n \in Low .. High |-> IF n >= k THEN 1 ELSE 0]
    /\ enabled \in SUBSET Subs \ {{}}
    /\ memory = [loaded |-> FALSE, lists |-> [s \in Subs |-> NoList],
                 subs |-> [s \in Subs |-> "none"]]
    /\ client = [s \in Subs |-> [pc |-> "new", chan |-> "none"]]
    /\ scan = [s \in Subs |-> NoScan] /\ cache = Empty
    /\ excuse = {}

NetReorg ==
    /\ \E n \in Finalized + 1 .. High :
          /\ net[n] < MaxNetReorgs
          /\ net' = [m \in Low .. High |-> IF m >= n THEN net[m] + 1 ELSE net[m]]
    /\ UNCHANGED <<rows, have, memory, client, enabled, scan, cache, excuse>>

-----------------------------------------------------------------------------
(* Start                                                                   *)

WithRows == {s \in Subs : DOMAIN rows[s] # {}}
LastID   == CHOOSE s \in WithRows : \A t \in WithRows : t <= s

\* SELECT ... ORDER BY subscriber_id
TrackedRows ==
    LET width == High - Low + 1
        pairs == [k \in 1 .. NSubs * width |->
                     <<1 + ((k - 1) \div width), Low + ((k - 1) % width)>>]
    IN SelectSeq(pairs, LAMBDA x : x[2] \in DOMAIN rows[x[1]])

\* Mutant of AddRow: the list of the last id is not stored.
AddRowOnly(l, r, isLast) ==
    IF r[1] # l.id
    THEN [id |-> r[1], list |-> With(Empty, r[2], rows[r[1]][r[2]]),
          lists |-> [l.lists EXCEPT ![l.id] = l.list]]
    ELSE [l EXCEPT !.list = With(@, r[2], rows[r[1]][r[2]])]

\* One round of the loop.  The last row is added to the current list without a
\* look at its id.
AddRow(l, r, isLast) ==
    IF isLast
    THEN [l EXCEPT !.lists[l.id] = With(l.list, r[2], rows[r[1]][r[2]])]
    ELSE IF r[1] # l.id
    THEN [id |-> r[1], list |-> With(Empty, r[2], rows[r[1]][r[2]]),
          lists |-> [l.lists EXCEPT ![l.id] = l.list]]
    ELSE [l EXCEPT !.list = With(@, r[2], rows[r[1]][r[2]])]

ListsOf(r) ==
    LET loop[i \in 0 .. Len(r)] ==
            IF i = 0 THEN [id |-> r[1][1], list |-> Empty, lists |-> [s \in Subs |-> NoList]]
            ELSE AddRow(loop[i - 1], r[i], i = Len(r))
    IN loop[Len(r)].lists

getTrackedBlocks == IF WithRows = {} THEN [s \in Subs |-> NoList] ELSE ListsOf(TrackedRows)

\* All lists are replaced, and those that were loaded get a new subscription.
loadTrackedHeaders ==
    /\ ~memory.loaded
    /\ \E lists \in {getTrackedBlocks} :
       /\ memory' = [loaded |-> TRUE, lists |-> lists,
                     subs |-> [s \in Subs |-> IF lists[s] # NoList THEN "load" ELSE memory.subs[s]]]
       /\ excuse' = excuse \cup
             (IF \E s \in Subs : client[s].pc # "new" THEN {"subscribed before the load"} ELSE {})
             \cup (IF WithRows \subseteq enabled THEN {} ELSE {"rows of a syncer that does not run"})
             \cup (IF \E s \in WithRows : lists[s] # rows[s] THEN {"row of another"} ELSE {})
    /\ UNCHANGED <<net, rows, have, client, enabled, scan, cache>>

\* Mutant of Subscribe: an existing subscription is replaced.
SubscribeAnew(s) ==
    /\ s \in enabled /\ client[s].pc = "new"
    /\ memory' = [memory EXCEPT !.subs[s] = "own"]
    /\ client' = [client EXCEPT ![s] = [pc |-> "list", chan |-> "own"]]
    /\ UNCHANGED <<net, rows, have, enabled, scan, cache, excuse>>

\* The existing subscription, or a new one and then an empty list.
Subscribe(s) ==
    /\ s \in enabled /\ client[s].pc = "new"
    /\ IF memory.subs[s] # "none"
       THEN /\ client' = [client EXCEPT ![s] = [pc |-> "on", chan |-> memory.subs[s]]]
            /\ UNCHANGED memory
       ELSE /\ memory' = [memory EXCEPT !.subs[s] = "own"]
            /\ client' = [client EXCEPT ![s] = [pc |-> "list", chan |-> "own"]]
    /\ UNCHANGED <<net, rows, have, enabled, scan, cache, excuse>>

SubscribeList(s) ==
    /\ client[s].pc = "list"
    /\ client' = [client EXCEPT ![s].pc = "on"]
    /\ memory' = [memory EXCEPT !.lists[s] = Empty]
    /\ UNCHANGED <<net, rows, have, enabled, scan, cache, excuse>>

-----------------------------------------------------------------------------
(* A syncer                                                                *)

Tracks(s, n) == n \in DOMAIN memory.lists[s] /\ memory.lists[s][n] = net[n]

\* The driver tracks the next block and stores it.  A block tracked after the
\* syncer has handled a reorg and before its range is removed goes with it.
AddBlockToTrack(s) ==
    /\ client[s].pc = "on" /\ memory.lists[s] # NoList
    /\ \E n \in Low .. High :
          /\ n \notin DOMAIN have[s] /\ \A m \in Low .. n - 1 : m \in DOMAIN have[s]
          /\ memory' = [memory EXCEPT !.lists[s] = With(@, n, net[n])]
          /\ rows' = IF Tracks(s, n) THEN rows ELSE [rows EXCEPT ![s] = With(@, n, net[n])]
          /\ have' = [have EXCEPT ![s] = With(@, n, net[n])]
    /\ excuse' = IF scan[s].pc = "remove" THEN excuse \cup {"tracked before the removal"}
                 ELSE excuse
    /\ UNCHANGED <<net, client, enabled, scan, cache>>

-----------------------------------------------------------------------------
(* A pass of the detector                                                  *)

getSorted(f) == [i \in 1 .. Cardinality(DOMAIN f) |->
    LET n == CHOOSE m \in DOMAIN f : Cardinality({k \in DOMAIN f : k < m}) = i - 1
    IN [num |-> n, hash |-> f[n]]]

\* Every subscriber with a list gets a goroutine.  Its snapshot is taken here.
detectReorgInTrackedList ==
    /\ memory.loaded /\ \A s \in Subs : scan[s].pc = "none"
    /\ \E s \in Subs : memory.subs[s] # "none" /\ memory.lists[s] # NoList
    /\ scan' = [s \in Subs |->
          IF memory.subs[s] # "none" /\ memory.lists[s] # NoList
          THEN [pc |-> "check", hdrs |-> getSorted(memory.lists[s])] ELSE NoScan]
    /\ cache' = Empty
    /\ UNCHANGED <<net, rows, have, memory, client, enabled, excuse>>

\* The statement's upper bound is the literal 2.
removeTrackedBlockRange(s, from) == [rows EXCEPT ![s] = Without(@, from .. 2)]

\* The loop of one goroutine up to the first header that is no longer the
\* network's.  Finalized headers before it are forgotten.
CheckHeaders(s) ==
    /\ scan[s].pc = "check"
    /\ LET hdrs   == scan[s].hdrs
           now(n) == IF n \in DOMAIN cache THEN cache[n] ELSE net[n]
           bad    == {i \in DOMAIN hdrs : hdrs[i].hash # now(hdrs[i].num)}
           seen   == {i \in DOMAIN hdrs : \A j \in bad : i <= j}
           nums   == {hdrs[i].num : i \in seen \ bad}
       IN /\ cache' = [n \in DOMAIN cache \cup {hdrs[i].num : i \in seen} |-> now(n)]
          /\ scan' = [scan EXCEPT ![s] = IF bad = {} THEN [pc |-> "end", hdrs |-> << >>]
                          ELSE [pc |-> "notify", hdrs |-> SubSeq(hdrs, Cardinality(seen), Len(hdrs))]]
          /\ memory' = [memory EXCEPT !.lists[s] = Without(@, {n \in nums : n <= Finalized})]
          /\ rows' = IF nums = {} THEN rows ELSE removeTrackedBlockRange(s, hdrs[1].num)
    /\ UNCHANGED <<net, have, client, enabled, excuse>>

\* notifySubscriber: the channel has no buffer, so somebody has to listen to
\* it.  The syncer drops the blocks and answers; the range is then removed.
notifySubscriber(s) ==
    /\ scan[s].pc = "notify"
    /\ client[s].pc = "on" /\ client[s].chan = memory.subs[s]
    /\ have' = [have EXCEPT ![s] = Without(@, Head(scan[s].hdrs).num .. High)]
    /\ scan' = [scan EXCEPT ![s].pc = "remove"]
    /\ UNCHANGED <<net, rows, memory, client, enabled, cache, excuse>>

RemoveReorged(s) ==
    /\ scan[s].pc = "remove"
    /\ rows' = removeTrackedBlockRange(s, Head(scan[s].hdrs).num)
    /\ memory' = [memory EXCEPT !.lists[s] =
                     Without(@, Head(scan[s].hdrs).num .. Last(scan[s].hdrs).num)]
    /\ scan' = [scan EXCEPT ![s] = [pc |-> "end", hdrs |-> << >>]]
    /\ UNCHANGED <<net, have, client, enabled, cache, excuse>>

\* errGroup.Wait returns.
PassEnds ==
    /\ \E s \in Subs : scan[s].pc # "none"
    /\ \A s \in Subs : scan[s].pc \in {"none", "end"}
    /\ scan' = [s \in Subs |-> NoScan] /\ cache' = Empty
    /\ UNCHANGED <<net, rows, have, memory, client, enabled, excuse>>

SubscribeStep(s) == Subscribe(s) \/ SubscribeList(s)
ScanStep(s)      == CheckHeaders(s) \/ notifySubscriber(s) \/ RemoveReorged(s)
DetectorStep     == loadTrackedHeaders \/ detectReorgInTrackedList \/ PassEnds

SubNext ==
    \/ NetReorg \/ DetectorStep
    \/ \E s \in Subs : SubscribeStep(s) \/ AddBlockToTrack(s) \/ ScanStep(s)

-----------------------------------------------------------------------------
(* Properties                                                              *)

\* After the load each subscriber has the list of its own rows and nobody
\* else's, except that a row which is alone under the last id goes to the id
\* before it.
ListForEachSubscriber ==
    [][memory'.loaded /\ ~memory.loaded
          /\ ~(Cardinality(WithRows) > 1 /\ Cardinality(DOMAIN rows[LastID]) = 1) =>
              \A s \in Subs : memory'.lists[s] = IF s \in WithRows THEN rows[s] ELSE NoList]_subVars

\* Blocks of an abandoned branch that a running syncer still has.
Stale == {<<s, n>> \in Subs \X (Low .. High) :
             client[s].pc = "on" /\ n \in DOMAIN have[s] /\ have[s][n] # net[n]}

\* A syncer that has stored a block of an abandoned branch is told and drops
\* it, after a restart and with other subscribers in the same pass, unless one
\* of the four things happened that the code does not cope with.
EverySubscriberIsTold == (Stale # {}) ~> (Stale = {} \/ excuse # {})
=============================================================================
