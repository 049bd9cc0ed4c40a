------------------------------- MODULE Listing -------------------------------
(***************************************************************************)
(* internal/memberchannels and internal/channelmembers: one request for    *)
(* the channels the bot is in, or for the people in a channel.  The        *)
(* handler reads Slack's pages one by one up to a cap; for people it then  *)
(* looks every id up, keeps the humans, and cuts the list once more.       *)
(*                                                                         *)
(* Slack is external: a page may repeat ids of earlier pages, hold blanks, *)
(* be empty, or fail, and there may be no last page; every call fails once *)
(* the request's deadline (45 and 60 seconds) has passed.  Ids are numbers *)
(* in their alphabetical order.  The guards of the debug handlers are      *)
(* those of DecisionLog, and the order of the channels, by name, is left   *)
(* out.                                                                    *)
(***************************************************************************)
EXTENDS Integers, Sequences, FiniteSets, SequencesExt, Ordered

CONSTANTS
    Ids, Blank,                  \* ids, and one that trims to ""
    Humans,                      \* the ids users.info calls neither bot nor deleted
    Requests,                    \* the requests to serve
    PageSize,                    \* bound: ids on a page (200 in the code)
    MaxChannels,                 \* 500 in the code
    MaxMemberIDs, MaxHumanUserIDs  \* 2000 and 200 in the code

ASSUME ListingAssumption ==
    /\ Ids \subseteq Nat /\ Blank \notin Ids /\ Humans \subseteq Ids
    /\ PageSize \in Nat /\ MaxChannels \in Nat \ {0}
    /\ MaxMemberIDs \in Nat \ {0} /\ MaxHumanUserIDs \in Nat

VARIABLES
    request, pc,
    late,       \* the deadline has passed
    all,        \* ids collected from the pages
    next,       \* the id to look up
    human,      \* humans found
    answer,
    \* history
    shown,      \* ids Slack showed
    unknown     \* ids whose lookup failed

vars == <<request, pc, late, all, next, human, answer, shown, unknown>>

Channels == request.kind = "channels"

Cap == IF Channels THEN MaxChannels ELSE MaxMemberIDs

Pages == BoundedSeq(Ids \cup {Blank}, PageSize)

(* What the handler answers before it asks Slack. *)
Refusal ==
    IF request.method # "GET" THEN 405
    ELSE IF ~request.botToken THEN 503
    ELSE IF ~Channels /\ ~request.channelID THEN 400
    ELSE 200

Answer(status, ids, cut, cutHumans) ==
    [status |-> status, ids |-> ids, cut |-> cut, cutHumans |-> cutHumans]

Init ==
    /\ request \in Requests
    /\ pc = "start" /\ late = FALSE
    /\ all = <<>> /\ next = 1 /\ human = <<>>
    /\ answer = Answer(0, <<>>, FALSE, FALSE)
    /\ shown = {} /\ unknown = {}

Sends(response) == pc' = "answered" /\ answer' = response

DeadlinePasses ==
    /\ pc \in {"page", "lookup"} /\ ~late
    /\ late' = TRUE
    /\ UNCHANGED <<request, pc, all, next, human, answer, shown, unknown>>

Starts ==
    /\ pc = "start"
    /\ IF Refusal = 200 THEN pc' = "page" /\ UNCHANGED answer
       ELSE Sends(Answer(Refusal, <<>>, FALSE, FALSE))
    /\ UNCHANGED <<request, late, all, next, human, shown, unknown>>

(* Fault: the cap is looked at between pages only. *)
CollectWhole(page) ==
    FoldLeft(LAMBDA ids, id :
                 IF id = Blank \/ (Channels /\ id \in ToSet(ids))
                 THEN ids ELSE Append(ids, id),
             all, page)

(* Blanks are skipped, channels that are listed too; members repeat.  The  *)
(* cap ends the loop over the page.                                        *)
Collect(page) ==
    FoldLeft(LAMBDA ids, id :
                 IF id = Blank \/ Len(ids) >= Cap \/ (Channels /\ id \in ToSet(ids))
                 THEN ids ELSE Append(ids, id),
             all, page)

(* Fault: what fits exactly is not marked. *)
MarksOverflow(page, more) == Len(Collect(page)) >= Cap /\ more

IsCut(page, more) == Len(Collect(page)) >= Cap

(* The reading ends at the cap or with the last page. *)
PageArrives(page, more) ==
    /\ pc = "page" /\ ~late
    /\ all' = Collect(page)
    /\ shown' = shown \cup (ToSet(page) \ {Blank})
    /\ IF more /\ ~IsCut(page, more) THEN UNCHANGED <<pc, answer>>
       ELSE IF Channels THEN Sends(Answer(200, all', IsCut(page, more), FALSE))
       ELSE pc' = "lookup" /\ UNCHANGED answer
    /\ UNCHANGED <<request, late, next, human, unknown>>

(* Fault: a failed page is asked for again, whatever the time. *)
AsksAgain ==
    /\ pc = "page"
    /\ UNCHANGED vars

(* A page that fails fails the request: nothing of the earlier pages. *)
PageFails ==
    /\ pc = "page"
    /\ Sends(Answer(502, <<>>, FALSE, FALSE))
    /\ UNCHANGED <<request, late, all, next, human, shown, unknown>>

SeenBefore(i) == \E j \in 1..(i - 1) : all[j] = all[i]

(* Fault: an id that cannot be looked up is taken for a human. *)
TrustsId(ok) ==
    /\ pc = "lookup" /\ next <= Len(all)
    /\ ok => ~late
    /\ next' = next + 1
    /\ human' = IF SeenBefore(next) \/ (ok /\ all[next] \notin Humans)
                THEN human ELSE Append(human, all[next])
    /\ unknown' = IF ok \/ SeenBefore(next) THEN unknown
                  ELSE unknown \cup {all[next]}
    /\ UNCHANGED <<request, pc, late, all, answer, shown>>

(* filterHumanUsers: a lookup that fails, of a bot or of a deleted user    *)
(* leaves the id out.                                                      *)
LooksUp(ok) ==
    /\ pc = "lookup" /\ next <= Len(all)
    /\ ok => ~late
    /\ next' = next + 1
    /\ human' = IF ok /\ ~SeenBefore(next) /\ all[next] \in Humans
                THEN Append(human, all[next]) ELSE human
    /\ unknown' = IF ok \/ SeenBefore(next) THEN unknown
                  ELSE unknown \cup {all[next]}
    /\ UNCHANGED <<request, pc, late, all, answer, shown>>

FirstHumans(ids) == SubSeq(ids, 1, Min({Len(ids), MaxHumanUserIDs}))

Sorted(ids) == InOrder(ToSet(ids))

(* Fault: the list is cut before it is sorted. *)
CutThenSorted(ids) == Sorted(FirstHumans(ids))

Kept(ids) == FirstHumans(Sorted(ids))

AnswersMembers ==
    /\ pc = "lookup" /\ next > Len(all)
    /\ Sends(Answer(200, Kept(human), Len(all) >= MaxMemberIDs,
                    Len(human) > MaxHumanUserIDs))
    /\ UNCHANGED <<request, late, all, next, human, shown, unknown>>

Handler ==
    \/ Starts \/ PageFails \/ AnswersMembers
    \/ \E page \in Pages, more \in BOOLEAN : PageArrives(page, more)
    \/ \E ok \in BOOLEAN : LooksUp(ok)

Next == Handler \/ DeadlinePasses

Spec == Init /\ [][Next]_vars

(* The handler runs on, and time passes. *)
FairSpec == Spec /\ WF_vars(Handler) /\ WF_vars(DeadlinePasses)
------------------------------------------------------------------------------
(* Every variable has the values the program can give it. *)
TypeOK ==
    /\ request \in Requests
    /\ pc \in {"start", "page", "lookup", "answered"}
    /\ late \in BOOLEAN
    /\ all \in BoundedSeq(Ids, Cap)
    /\ next \in 1..(Len(all) + 1)
    /\ human \in Seq(Ids)
    /\ shown \subseteq Ids /\ unknown \subseteq Ids
    /\ answer \in [status : {0, 200, 400, 405, 502, 503}, ids : Seq(Ids),
                   cut : BOOLEAN, cutHumans : BOOLEAN]

Listed == answer.status = 200

(* Whatever the pages repeat or leave blank, a channel Slack showed is in  *)
(* the answer, once, or the answer is marked as cut; it is marked only     *)
(* when it is full.                                                        *)
ChannelsAreCompleteOrCut ==
    Listed /\ Channels =>
        /\ IsInjective(answer.ids)
        /\ ToSet(answer.ids) \subseteq shown
        /\ ~answer.cut => ToSet(answer.ids) = shown
        /\ answer.cut => Len(answer.ids) = MaxChannels

(* An answer that is not marked has every human Slack showed, but for the  *)
(* ones whose lookup failed - after the deadline that is all that were     *)
(* left -, and it never has a bot.                                         *)
HumansAreCompleteOrCut ==
    Listed /\ ~Channels =>
        /\ IsInjective(answer.ids)
        /\ ToSet(answer.ids) \subseteq Humans \cap shown
        /\ ~answer.cut /\ ~answer.cutHumans =>
               (shown \cap Humans) \ unknown \subseteq ToSet(answer.ids)

(* The list is cut twice.  The cap on the ids collected keeps what the     *)
(* pages showed first, and the answer is marked as cut unless it collected *)
(* all that Slack showed.  Of the humans collected, those left out for     *)
(* lack of room are the last of the alphabet, in whatever order the pages  *)
(* showed them.                                                            *)
CutKeepsTheFirst ==
    Listed /\ ~Channels =>
        /\ answer.cut \/ ToSet(all) = shown
        /\ \A id \in (ToSet(all) \cap Humans) \ (unknown \cup ToSet(answer.ids)) :
               /\ Len(answer.ids) = MaxHumanUserIDs
               /\ \A kept \in ToSet(answer.ids) : kept < id

(* The request is answered even when Slack's pages never end: the deadline *)
(* ends the reading, and the lookups left fail at once.                    *)
RequestsEnd == <>(pc = "answered")
==============================================================================
