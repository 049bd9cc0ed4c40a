------------------------------ MODULE Settings ------------------------------
(***************************************************************************)
(* internal/config: what a process makes of its environment when it        *)
(* starts.  Go walks a map in an order of its own, another one every time; *)
(* walk is that order of the roster's user ids.  The settings that are     *)
(* passed on as they are read are left out.                                *)
(***************************************************************************)
EXTENDS Integers, Sequences, FiniteSetsExt, SequencesExt, Ordered

CONSTANTS
    DefaultSquadOrder,  \* alex, tim, ross, garth, joanne
    Blank,              \* a value that trims to ""
    NotANumber,         \* an integer setting that is unset or no integer
    Precedes(_, _),     \* the order of strings
    Digest(_),          \* sha256 of a list
    Shuffle(_, _)       \* rand.Shuffle with a seed

------------------------------------------------------------------------------
IntOr(value, default) == IF value = NotANumber THEN default ELSE value

AtLeast(low, n) == Max({low, n})

Clamp(low, high, n) == Min({high, AtLeast(low, n)})

NonBlank(s) == Selected(s, {i \in DOMAIN s : s[i] # Blank})

(* What a list of assignments leaves: a user id given twice has the last   *)
(* key.                                                                    *)
Assigned(pairs) ==
    [u \in {pairs[i].uid : i \in DOMAIN pairs} |->
        pairs[Max({i \in DOMAIN pairs : pairs[i].uid = u})].key]

(* alex=U1,tim=U2 *)
KeyedMap(pairs) ==
    Assigned(Selected(pairs, {i \in DOMAIN pairs :
                                  Blank \notin {pairs[i].key, pairs[i].uid}}))

(* U1,U2: the ids take the default keys in turn, as far as these go; one   *)
(* given twice uses up two of them.                                        *)
PositionalMap(uids) ==
    LET ids == NonBlank(uids)
    IN Assigned([i \in 1..Min({Len(ids), Len(DefaultSquadOrder)}) |->
                    [uid |-> ids[i], key |-> DefaultSquadOrder[i]]])

BotUserMap(env) ==
    IF env.keyed THEN KeyedMap(env.bots) ELSE PositionalMap(env.bots)

SortStrings(set) ==
    SortedBy(set, {pair \in set \X set : Precedes(pair[1], pair[2])})

(* Fault: the keys stay in the order of the walk. *)
WalkedKeys(map, walk) == [i \in 1..Len(walk) |-> map[walk[i]]]

(* The distinct keys of the roster, sorted. *)
RosterKeys(map, walk) ==
    SortStrings({map[walk[i]] : i \in 1..Len(walk)})

DerivedShuffleSeed(map, walk) ==
    LET uids == SortStrings(ToSet(walk))
    IN Digest([i \in 1..Len(uids) |-> <<uids[i], map[uids[i]]>>])

ResolveMultiagentOrder(explicit, map, secret, walk) ==
    IF explicit # <<>> THEN explicit
    ELSE Shuffle(secret, RosterKeys(map, walk))

(* The orders in which the roster can be walked. *)
Walks(env) == SetToSeqs(DOMAIN BotUserMap(env))

FromEnv(env, walk) ==
    LET map    == BotUserMap(env)
        secret == IF env.secret # Blank THEN env.secret
                  ELSE DerivedShuffleSeed(map, walk)
    IN [botUserToKey |-> map,
        shuffleSecret |-> secret,
        multiagentOrder |->
            ResolveMultiagentOrder(NonBlank(env.order), map, secret, walk),
        eventsAPIWorkers   |-> AtLeast(1, IntOr(env.workers, 8)),
        eventsAPIQueueSize |-> AtLeast(1, IntOr(env.queueSize, 256)),
        publishMaxAttempts |-> Clamp(1, 10, IntOr(env.attempts, 3)),
        publishRetryBaseMS |-> Clamp(0, 5000, IntOr(env.retryBase, 50))]
==============================================================================
