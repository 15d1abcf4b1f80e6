----------------------------- MODULE ChatLinks -----------------------------
(***************************************************************************)
(* packages/node/src/chat-links/index.ts: createChatLinkRetrievalPlan      *)
(* walks a tree of messages for links to Chat, under nine budgets, and     *)
(* plans the reads of what they point at.  The walk keeps a stack of its   *)
(* own; objects may be shared and may form a cycle.  The spelling of URLs, *)
(* titles, senders, confidences, summaries and scopes are left out.        *)
(***************************************************************************)
EXTENDS Integers, SequencesExt, FiniteSetsExt

CONSTANTS
  ChatInputs,       \* what a plan is asked for: [tree, root, limits, options]
  ValidSegments,    \* what a part of a resource name may be
  NumericSegments

VARIABLES
  chatInput,
  chatWalk          \* the traversal, its stack, and what it has found

chatVars == <<chatInput, chatWalk>>

(* A node of the tree is a record of name, links, annotations, matched (of *)
(* one link or none), text, message, messages, contextNode, children (with *)
(* their relationships) and ast; a text is the sequence of its URLs, set   *)
(* apart by one character.  A link has a source, a URL and data, NoData    *)
(* when it is a URL alone.                                                 *)
NoData == [message |-> <<>>, thread |-> <<>>, space |-> <<>>]

Segments == Seq(STRING)

ChatLink ==
  [source : STRING,
   url    : [protocol : STRING, host : STRING, path : Segments, hash : Segments, size : Nat],
   data   : [message : Segments, thread : Segments, space : Segments]]

ChatNode(nodes) ==
  [name : STRING, links : Seq(ChatLink), annotations : Seq(ChatLink),
   matched : Seq({link \in ChatLink : link.source = "matched_url"}),
   text : Seq({link \in ChatLink : link.source = "plain_url" /\ link.url.size > 0}),
   message : Seq(nodes), messages : Seq(nodes), contextNode : Seq(nodes),
   children : Seq([node : nodes, relationship : STRING, index : Nat]), ast : BOOLEAN]

LimitNames ==
  {"candidates", "urls", "chars", "urlLength", "occurrences", "nodes", "scans", "depth"}

ASSUME ChatAssumption ==
  \A input \in ChatInputs :
    /\ IsFiniteSet(DOMAIN input.tree) /\ input.root \in DOMAIN input.tree
    /\ \A node \in DOMAIN input.tree : input.tree[node] \in ChatNode(DOMAIN input.tree)
    /\ input.limits \in [LimitNames -> Nat]

Budgets == {"candidates", "urls", "chars", "oversized", "occurrences", "nodes", "scans"}

---------------------------------------------------------------------------
(* What a link points at; "" where it says nothing.                        *)

ChatTarget(scope, space, thread, message) ==
  [scope |-> scope, space |-> space, thread |-> thread, message |-> message]

NotChat == ChatTarget("none", <<>>, <<>>, <<>>)

ParsedUnknown == ChatTarget("unknown", <<>>, <<>>, <<>>)

NormalizedSpace(id) == ChatTarget("space", <<"spaces", id>>, <<>>, <<>>)

Canonical(kind, name) ==
  /\ Range(name) \subseteq ValidSegments
  /\ Len(name) = (IF kind = "space" THEN 2 ELSE 4)
  /\ name[1] = "spaces"
  /\ kind # "space" => name[3] = kind \o "s"

ParseChatSpaceLinkData(data) ==
  LET given  == {kind \in DOMAIN data : data[kind] # <<>>}
      spaces == {SubSeq(data[kind], 1, 2) : kind \in given}
      finest == CHOOSE kind \in given :
        (kind = "message") \/ ("message" \notin given /\ kind = "thread") \/ given = {"space"}
  IN IF Cardinality(spaces) # 1 \/ \E kind \in given : ~Canonical(kind, data[kind])
     THEN ParsedUnknown
     ELSE ChatTarget(finest, CHOOSE space \in spaces : TRUE, data.thread, data.message)

(* A Gmail address under a Chat route that names no space stays visible;   *)
(* any other Gmail address is no Chat link.                                *)
ParseMailHashSpace(url) ==
  LET prefix == Len(url.path) >= 2 /\ url.path[1] \in {"mail", "chat"} /\ url.path[2] = "u"
      route  == prefix /\ Len(url.path) = 3 /\ url.path[3] \in NumericSegments
  IN IF ~prefix THEN NotChat
     ELSE IF /\ route
             /\ Len(url.hash) = 3 /\ SubSeq(url.hash, 1, 2) = <<"chat", "space">>
             /\ url.hash[3] \in ValidSegments
          THEN NormalizedSpace(url.hash[3])
          ELSE ParsedUnknown

ParseChatHostUrl(url) ==
  LET path == url.path
      is(length, parts) == Len(path) = length /\ \A i \in DOMAIN parts : path[i] = parts[i]
  IN CASE is(2, <<"room">>) /\ path[2] \in ValidSegments -> NormalizedSpace(path[2])
       [] is(3, <<"room">>) /\ {path[2], path[3]} \subseteq ValidSegments ->
            ChatTarget("thread", <<"spaces", path[2]>>,
                       <<"spaces", path[2], "threads", path[3]>>, <<>>)
       [] /\ is(5, <<"u">>) /\ path[2] \in NumericSegments
          /\ path[3] = "app" /\ path[4] = "chat" /\ path[5] \in ValidSegments ->
            NormalizedSpace(path[5])
       [] OTHER -> ParsedUnknown

ParseChatUrl(url) ==
  CASE url.host \notin {"chat.google.com", "mail.google.com"} -> NotChat
    [] url.protocol # "https" -> ParsedUnknown
    [] url.host = "mail.google.com" -> ParseMailHashSpace(url)
    [] OTHER -> ParseChatHostUrl(url)

ChatTargetOf(link) ==
  IF link.data # NoData THEN ParseChatSpaceLinkData(link.data) ELSE ParseChatUrl(link.url)

ResourceFor(target) ==
  CASE target.scope = "message" -> target.message
    [] target.scope = "thread" -> target.thread
    [] target.scope = "space" -> target.space
    [] OTHER -> <<>>

DedupeKeyForCandidate(link, target) ==
  IF target.scope = "unknown"
  THEN [resource |-> <<>>, unknown |-> {[url |-> link.url, byUrl |-> link.data = NoData]}]
  ELSE [resource |-> ResourceFor(target), unknown |-> {}]

---------------------------------------------------------------------------
(* The candidates.                                                         *)

ChatLimits == chatInput.limits

ChatCap(w, budget, count) == [w EXCEPT !.capped[budget] = @ + count]

AddOccurrence(w, i, path) ==
  LET paths == w.found[i].paths
  IN IF path \in Range(paths) THEN w
     ELSE IF Len(paths) >= ChatLimits.occurrences THEN ChatCap(w, "occurrences", 1)
     ELSE [w EXCEPT !.found[i].paths = Append(@, path)]

AddChatEntry(w, link, path) ==
  LET target == ChatTargetOf(link)
      key    == DedupeKeyForCandidate(link, target)
      same   == {i \in DOMAIN w.found : w.found[i].key = key}
  IN IF target.scope = "none" THEN w
     ELSE IF same # {} THEN AddOccurrence(w, CHOOSE i \in same : TRUE, path)
     ELSE IF Len(w.found) >= ChatLimits.candidates THEN ChatCap(w, "candidates", 1)
     ELSE [w EXCEPT !.found = Append(@, [key |-> key, target |-> target, paths |-> <<path>>])]

EntryAllowedByOptions(link) == link.source \in chatInput.options.sources

AddAllowedEntry(w, link, path) ==
  IF EntryAllowedByOptions(link) THEN AddChatEntry(w, link, path) ELSE w

(* A budget that runs out ends the visit of the message, not of the tree.  *)
CollectScanned(w, links, path) ==
  LET room == IF Len(links) <= ChatLimits.scans - w.scanned THEN Len(links)
              ELSE ChatLimits.scans - w.scanned
      first == [ChatCap(w, "scans", Len(links) - room)
                  EXCEPT !.scanned = @ + room, !.ended = room < Len(links)]
      added[i \in 0..room] ==
        IF i = 0 THEN first ELSE AddAllowedEntry(added[i - 1], links[i], path)
  IN IF w.ended THEN w ELSE added[room]

(* Of a text only the first chars are read; a URL cut there, or too long,  *)
(* is not trusted.                                                         *)
ReadUrl(w, link, start, path) ==
  LET cut == start + link.url.size > ChatLimits.chars
  IN IF w.ended \/ start >= ChatLimits.chars THEN w
     ELSE IF w.urls >= ChatLimits.urls THEN [ChatCap(w, "urls", 1) EXCEPT !.ended = TRUE]
     ELSE IF cut \/ link.url.size > ChatLimits.urlLength THEN ChatCap(w, "oversized", 1)
     ELSE AddChatEntry([w EXCEPT !.urls = @ + 1], link, path)

(* Where in the text, after so many URLs, the next one starts.             *)
UrlStarts(text) ==
  LET starts[k \in 0..Len(text)] ==
        IF k = 0 THEN 0 ELSE starts[k - 1] + text[k].url.size + 1
  IN starts

CollectPlainTextUrls(w, text, path) ==
  LET starts == UrlStarts(text)
      unread == starts[Len(text)] - 1 - ChatLimits.chars
      read[k \in 0..Len(text)] ==
        IF k = 0 THEN ChatCap(w, "chars", IF unread > 0 THEN unread ELSE 0)
        ELSE ReadUrl(read[k - 1], text[k], starts[k - 1], path)
  IN IF w.ended \/ text = <<>> THEN w ELSE read[Len(text)]

CollectFromMessageLike(w, value, path) ==
  LET matched == IF "matched_url" \in chatInput.options.sources THEN value.matched ELSE <<>>
      text    == IF "plain_url" \in chatInput.options.sources THEN value.text ELSE <<>>
      linked  == CollectScanned([w EXCEPT !.ended = FALSE], value.links, path)
      scanned == CollectScanned(CollectScanned(linked, value.annotations, path), matched, path)
  IN CollectPlainTextUrls(scanned, text, path)

---------------------------------------------------------------------------
(* The walk.                                                               *)

(* Anonymous messages are numbered so that no two share a path; the order  *)
(* of the numbers is abstracted.                                           *)
MessageLabel(child, number) ==
  LET name == chatInput.tree[child.node].name
  IN [relationship |-> child.relationship, index |-> child.index,
      name |-> name, number |-> IF name = "" THEN number ELSE 0]

\* Mutant: children there is no slot for are dropped without a count.
PushTraversalChildren_Silent(w, parent, children) ==
  LET depth == parent.depth + 1
      slots == ChatLimits.nodes - w.nodes - Len(w.stack)
      kept  == IF depth > ChatLimits.depth \/ slots <= 0 THEN 0
               ELSE IF Len(children) <= slots THEN Len(children) ELSE slots
      item(i) == [node |-> children[i].node, depth |-> depth,
                  path |-> Append(parent.path, MessageLabel(children[i], w.anonymous + i))]
  IN [w EXCEPT !.stack = @ \o [i \in 1..kept |-> item(kept + 1 - i)],
               !.anonymous = @ + kept]

PushTraversalChildren(w, parent, children) ==
  LET depth == parent.depth + 1
      slots == ChatLimits.nodes - w.nodes - Len(w.stack)
      kept  == IF depth > ChatLimits.depth \/ slots <= 0 THEN 0
               ELSE IF Len(children) <= slots THEN Len(children) ELSE slots
      item(i) == [node |-> children[i].node, depth |-> depth,
                  path |-> Append(parent.path, MessageLabel(children[i], w.anonymous + i))]
  IN [ChatCap(w, "nodes", Len(children) - kept) EXCEPT
        !.stack = @ \o [i \in 1..kept |-> item(kept + 1 - i)],
        !.anonymous = @ + kept]

(* The children in the groups they are pushed in; of a normalized message  *)
(* the context node itself is passed over.                                 *)
TraversalChildren(value) ==
  LET as(relationship, nodes) ==
        [i \in DOMAIN nodes |-> [node |-> nodes[i], relationship |-> relationship, index |-> 0]]
      numbered(nodes) ==
        [i \in DOMAIN nodes |-> [node |-> nodes[i], relationship |-> "message", index |-> i]]
      context == value.contextNode
  IN <<as("message", value.message), numbered(value.messages),
       IF context = <<>> THEN <<>>
       ELSE IF value.ast THEN chatInput.tree[context[1]].children ELSE as("context", context),
       value.children>>

VisitTraversalItem ==
  LET item  == Last(chatWalk.stack)
      value == chatInput.tree[item.node]
      rest  == [chatWalk EXCEPT !.stack = Front(@)]
      open  == [rest EXCEPT !.visited = @ \cup {item.node}]
      told  == CollectFromMessageLike([open EXCEPT !.nodes = @ + 1], value, item.path)
      groups == TraversalChildren(value)
      pushed[g \in 0..Len(groups)] ==
        IF g = 0 THEN told ELSE PushTraversalChildren(pushed[g - 1], item, groups[g])
  IN /\ chatWalk.stack # <<>>
     /\ chatWalk' =
          IF item.node \in chatWalk.visited THEN rest
          ELSE IF item.depth > ChatLimits.depth \/ chatWalk.nodes >= ChatLimits.nodes
               THEN ChatCap(open, "nodes", 1)
          ELSE pushed[Len(groups)]
     /\ UNCHANGED chatInput

ChatRoot(input) ==
  LET name == input.tree[input.root].name
  IN [node |-> input.root, depth |-> 1,
      path |-> <<[relationship |-> IF name = "" THEN "input" ELSE "self", index |-> 0,
                  name |-> name, number |-> 0]>>]

ChatInitFrom(inputs) ==
  /\ chatInput \in inputs
  /\ chatWalk = [stack |-> IF chatInput.options.enabled THEN <<ChatRoot(chatInput)>> ELSE <<>>,
                 visited |-> {}, found |-> <<>>, nodes |-> 0, scanned |-> 0, urls |-> 0,
                 anonymous |-> 0, capped |-> [budget \in Budgets |-> 0], ended |-> FALSE]

ChatInit == ChatInitFrom(ChatInputs)

ChatNext == VisitTraversalItem

ChatSpec == ChatInit /\ [][ChatNext]_chatVars

---------------------------------------------------------------------------
(* The plan, made of what the walk has found.                              *)

TraversalWasCapped == \E budget \in Budgets : chatWalk.capped[budget] > 0

CacheRevalidateWith(candidate) ==
  CASE candidate.target.scope = "message" -> "spaces.messages.get"
    [] candidate.target.scope = "thread" -> "spaces.messages.list"
    [] candidate.target.scope = "space" /\ chatInput.options.spaceLevel -> "spaces.messages.list"
    [] OTHER -> "none"

HasCacheHit(candidate) ==
  /\ candidate.key.resource \in chatInput.options.cached
  /\ CacheRevalidateWith(candidate) # "none"

(* A message or a list that the cache holds is asked for its fields alone. *)
RequestForCandidate(candidate) ==
  LET target == candidate.target
      get  == [resource |-> "spaces.get", of |-> target.space, fields |-> FALSE]
      read == [resource |-> CacheRevalidateWith(candidate), of |-> ResourceFor(target),
               fields |-> HasCacheHit(candidate)]
  IN IF target.scope = "unknown" THEN {}
     ELSE IF read.resource = "none" THEN {get} ELSE {get, read}

(* Equal requests are one, whatever the candidates that asked for them.    *)
DedupedRequests ==
  IF chatInput.options.authMode \notin {"user", "app"} THEN {}
  ELSE UNION {RequestForCandidate(chatWalk.found[i]) : i \in DOMAIN chatWalk.found}

PlanStatus ==
  IF chatInput.options.authMode \notin {"user", "app"} \/ chatWalk.found = <<>> THEN "blocked"
  ELSE IF \/ TraversalWasCapped \/ DedupedRequests = {}
          \/ \E i \in DOMAIN chatWalk.found : chatWalk.found[i].target.scope = "unknown"
       THEN "partial"
  ELSE "ready"

---------------------------------------------------------------------------
ChildrenOf(node) ==
  LET groups == TraversalChildren(chatInput.tree[node])
  IN UNION {{groups[g][i].node : i \in DOMAIN groups[g]} : g \in DOMAIN groups}

ReachableMessages ==
  LET within[k \in 0..Cardinality(DOMAIN chatInput.tree)] ==
        IF k = 0 THEN {chatInput.root}
        ELSE within[k - 1] \cup UNION {ChildrenOf(node) : node \in within[k - 1]}
  IN within[Cardinality(DOMAIN chatInput.tree)]

ChatLinksIn(node) ==
  LET value == chatInput.tree[node]
  IN {link \in UNION {Range(value.links), Range(value.annotations),
                      Range(value.matched), Range(value.text)} :
        EntryAllowedByOptions(link) /\ ChatTargetOf(link).scope # "none"}

NothingOmitted ==
  \A node \in ReachableMessages : \A link \in ChatLinksIn(node) :
    \E i \in DOMAIN chatWalk.found :
      LET candidate == chatWalk.found[i]
          name == chatInput.tree[node].name
      IN /\ candidate.key = DedupeKeyForCandidate(link, ChatTargetOf(link))
         /\ name # "" => \E j \in DOMAIN candidate.paths : Last(candidate.paths[j]).name = name
         /\ PlanStatus = "ready" =>
              \E request \in DedupedRequests : request.of = ResourceFor(ChatTargetOf(link))

SpacesNamed(link) ==
  IF link.data = NoData THEN {ChatTargetOf(link).space}
  ELSE {SubSeq(link.data[kind], 1, 2) : kind \in {k \in DOMAIN NoData : link.data[k] # <<>>}}

NothingStray ==
  \A request \in DedupedRequests :
    \E node \in ReachableMessages : \E link \in ChatLinksIn(node) :
      SpacesNamed(link) = {SubSeq(request.of, 1, 2)}

(* A walk that says it is complete has found every Chat link of every      *)
(* message in reach, in spite of shared messages and cycles, and tells of  *)
(* each named message the link was found in; the plan is "ready" only when *)
(* a read of each link is planned; and no read leaves the one space that   *)
(* some link names, whatever the budgets.                                  *)
ChatLinksAccounted ==
  chatWalk.stack = <<>> =>
    /\ chatInput.options.enabled /\ ~TraversalWasCapped => NothingOmitted
    /\ NothingStray
=============================================================================
