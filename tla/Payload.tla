------------------------------- MODULE Payload -------------------------------
(***************************************************************************)
(* internal/slackrun/message_fields.go: what the handler takes from a      *)
(* message event, whose text, user, bot and thread are at its top or in a  *)
(* nested message, or in both and not the same.                            *)
(***************************************************************************)
EXTENDS Integers, Sequences, SequencesExt, Ordered

CONSTANTS
    Blank,        \* a field that is absent or trims to ""
    ImageText,    \* the placeholder for a message of images only
    MaxImages     \* 8 in the code

------------------------------------------------------------------------------
(* An event's nested part, absent when Slack sends none, has the fields of *)
(* the top and the files.                                                  *)
Effective(event, field) ==
    IF event.top[field] # Blank THEN event.top[field]
    ELSE IF event.hasMessage THEN event.message[field] ELSE Blank

(* imageFileIDsFromFiles: images that have an id, in order, up to a limit. *)
ImageFileIDs(files) ==
    LET images == Selected(files, {i \in 1..Len(files) :
                                       files[i].image /\ files[i].id # Blank})
    IN [i \in 1..Min({Len(images), MaxImages}) |-> images[i].id]

MessageImages(event) ==
    IF event.hasMessage THEN ImageFileIDs(event.files) ELSE <<>>

RoutingText(event) ==
    IF Effective(event, "text") # Blank THEN Effective(event, "text")
    ELSE IF MessageImages(event) # <<>> THEN ImageText ELSE Blank

(* Fault: the routed text is all there is to see. *)
RoutedSurface(event) == {RoutingText(event)} \ {Blank}

(* routingMentionDetectionText: the distinct texts of all surfaces. *)
MentionSurfaces(event) ==
    ({RoutingText(event), event.top.text}
        \cup (IF event.hasMessage THEN {event.message.text} ELSE {})) \ {Blank}

Extract(event) ==
    [user |-> Effective(event, "user"), bot |-> Effective(event, "bot"),
     thread |-> Effective(event, "thread"), text |-> RoutingText(event),
     images |-> MessageImages(event), surfaces |-> MentionSurfaces(event)]
==============================================================================
