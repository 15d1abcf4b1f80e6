----------------------------- MODULE DriveLinks -----------------------------
(***************************************************************************)
(* packages/node/src/attachments/index.ts: createDriveLinkRetrievalPlan    *)
(* walks a message and its context for links to Drive files, under five    *)
(* limits, and says of each what can be done with it.  The walk is a       *)
(* recursion; here its frames are an agenda of visits and of returns.  The *)
(* spelling of URLs, names of files, notes and the export requests are     *)
(* left out.                                                               *)
(***************************************************************************)
EXTENDS ChatLinks

CONSTANT DriveInputs  \* what is asked: [tree, root, limits, options, planned]

VARIABLES
  driveInput,
  driveWalk           \* the traversal, its agenda, and what it has found

driveVars == <<driveInput, driveWalk>>

(* A node of the tree is a record of name, relationship, links,            *)
(* annotations, matched (of one link or none), text, of other nodes in     *)
(* message (one or none), context (one or none), children, quotedMessages, *)
(* threadHistory, quotedMessage (one or none) and contextNode (its         *)
(* children), and of wrapper: whether it only wraps a message, a context   *)
(* and links, as a record with a context does.  listed says that the       *)
(* record has links, be it none, as a normalized message has.              *)
DriveLink ==
  [source : STRING, kind : STRING, url : [host : STRING, path : Seq(STRING), id : STRING]]

DriveRecord(nodes) ==
  [name : STRING, relationship : STRING, links : Seq(DriveLink), annotations : Seq(DriveLink),
   matched : Seq(DriveLink), text : Seq({link \in DriveLink : link.source = "plain_url"}),
   message : Seq(nodes), context : Seq(nodes), children : Seq(nodes),
   quotedMessages : Seq(nodes), threadHistory : Seq(nodes), quotedMessage : Seq(nodes),
   contextNode : Seq(nodes), wrapper : BOOLEAN, listed : BOOLEAN]

(* What is held, quoted or in a history is a message, which holds none     *)
(* itself; and what holds one has no name and no text of its own.          *)
IsHolder(raw) == raw.message # <<>> \/ raw.context # <<>>

MessagesIn(raw) ==
  UNION {Range(raw.message), Range(raw.quotedMessages), Range(raw.threadHistory),
         Range(raw.quotedMessage)}

DriveTreeOf(tree) ==
  \A node \in DOMAIN tree :
    LET raw == tree[node]
    IN /\ raw \in DriveRecord(DOMAIN tree)
       /\ raw.context # <<>> => raw.wrapper
       /\ Len(raw.message) <= 1 /\ \A other \in MessagesIn(raw) : ~IsHolder(tree[other])
       /\ IsHolder(raw) => raw.name = "" /\ {raw.annotations, raw.matched, raw.text} = {<<>>}
       /\ raw.wrapper => raw.name = ""

DriveLimitNames == {"links", "nodes", "scans", "urls", "depth"}

ASSUME DriveAssumption ==
  \A input \in DriveInputs :
    /\ IsFiniteSet(DOMAIN input.tree) /\ "sourceInput" \notin DOMAIN input.tree
    /\ input.root \in DOMAIN input.tree /\ DriveTreeOf(input.tree)
    /\ input.limits \in [DriveLimitNames -> Nat]

DriveLimitsHit == {"deep", "nodes", "scans", "links", "urls"}

---------------------------------------------------------------------------
(* What a link points at.  A URL is a host, its path and its query id.     *)

PathIndex(path, segment) ==
  IF segment \in Range(path) THEN Min({i \in DOMAIN path : path[i] = segment}) ELSE 0

SegmentAt(path, i) == IF i \in DOMAIN path THEN path[i] ELSE ""

DocsKinds == {"document", "spreadsheets", "presentation", "drawings"}

ParseDriveUrl(url) ==
  LET path    == url.path
      docId   == SegmentAt(path, PathIndex(path, "d") + 1)
      folder  == PathIndex(path, "folders")
      file    == PathIndex(path, "file")
      parsed(id, kind, reasons) == [drive |-> TRUE, id |-> id, kind |-> kind, reasons |-> reasons]
  IN CASE url.host = "docs.google.com" ->
            LET kind == IF SegmentAt(path, 1) \in DocsKinds THEN path[1] ELSE "unknown"
                hasId == PathIndex(path, "d") > 0 /\ docId # ""
            IN IF hasId /\ docId = "e" THEN parsed("", kind, {"published_docs_url_unsupported"})
               ELSE IF hasId
                    THEN parsed(docId, kind, IF kind = "unknown" THEN {"unsupported_docs_file_kind"} ELSE {})
               ELSE parsed("", kind, {"drive_file_id_missing"})
       [] url.host = "drive.google.com" ->
            IF file > 0 /\ SegmentAt(path, file + 1) = "d"
            THEN LET id == SegmentAt(path, file + 2)
                 IN parsed(id, "blob", IF id = "" THEN {"drive_file_id_missing"} ELSE {})
            ELSE IF folder > 0
            THEN parsed(SegmentAt(path, folder + 1), "folder", {"drive_folder_not_file"})
            ELSE parsed(url.id, "blob", IF url.id = "" THEN {"drive_file_id_missing"} ELSE {})
       [] OTHER -> [drive |-> FALSE, id |-> "", kind |-> "unknown", reasons |-> {}]

(* A rich link may bring the type of its file, which then decides.         *)
DriveCandidateFromEntry(link) ==
  LET parsed == ParseDriveUrl(link.url)
      kind   == IF link.kind # "" THEN link.kind ELSE parsed.kind
  IN [drive |-> parsed.drive, id |-> parsed.id, kind |-> kind,
      reasons |-> parsed.reasons
                  \cup (IF parsed.id = "" THEN {"drive_file_id_missing"} ELSE {})
                  \cup (IF kind = "folder" THEN {"drive_folder_not_file"} ELSE {})]

---------------------------------------------------------------------------
DriveLimits == driveInput.limits

(* A plan takes message, context and links out of an input that has one of *)
(* them; the candidates alone are collected from the input as it is.       *)
Rewrapped ==
  LET raw == driveInput.tree[driveInput.root]
  IN driveInput.planned /\ (raw.message # <<>> \/ raw.context # <<>> \/ raw.listed)

WalkRoot == IF Rewrapped THEN "sourceInput" ELSE driveInput.root

DriveTree ==
  [node \in DOMAIN driveInput.tree \cup {WalkRoot} |->
    IF node = "sourceInput"
    THEN [driveInput.tree[driveInput.root] EXCEPT !.wrapper = TRUE, !.name = ""]
    ELSE driveInput.tree[node]]

DriveCap(w, limit, count) == [w EXCEPT !.capped[limit] = @ + count]

(* A link that is there already counts as capped when the plan is full.    *)
AddDriveLinkEntry(w, link, path) ==
  LET entry == [path |-> path, link |-> link]
      known == \E i \in DOMAIN w.found : w.found[i].path = path /\ w.found[i].link.url = link.url
  IN IF Len(w.found) >= DriveLimits.links THEN DriveCap(w, "links", 1)
     ELSE IF known THEN w
     ELSE [w EXCEPT !.found = Append(@, entry)]

DriveSourceAllowed(link) == link.source \in driveInput.options.sources

AddAllowedDriveLink(w, link, path) ==
  IF DriveSourceAllowed(link) THEN AddDriveLinkEntry(w, link, path) ELSE w

CollectDriveEntries(w, links, path) ==
  LET added[i \in 0..Len(links)] ==
        IF i = 0 THEN w ELSE AddAllowedDriveLink(added[i - 1], links[i], path)
  IN added[Len(links)]

\* Mutant: links there is no budget for are dropped without a count.
CollectDriveLinks_Silent(w, links, path) ==
  LET left == DriveLimits.scans - w.scanned
      room == IF Len(links) <= left THEN Len(links) ELSE left
  IN CollectDriveEntries([w EXCEPT !.scanned = @ + room], SubSeq(links, 1, room), path)

(* One budget for the links and the annotations of all messages.           *)
CollectDriveLinks(w, links, path) ==
  LET left == DriveLimits.scans - w.scanned
      room == IF Len(links) <= left THEN Len(links) ELSE left
      scanned == [DriveCap(w, "scans", Len(links) - room) EXCEPT !.scanned = @ + room]
  IN CollectDriveEntries(scanned, SubSeq(links, 1, room), path)

(* The first URL over the limit ends the text and is the only one counted. *)
CollectPlainTextDriveUrls(w, text, path) ==
  LET left == DriveLimits.urls - w.urls
      room == IF Len(text) <= left THEN Len(text) ELSE left
      over == IF room < Len(text) THEN 1 ELSE 0
      read == [DriveCap(w, "urls", over) EXCEPT !.urls = @ + room]
  IN CollectDriveEntries(read, SubSeq(text, 1, room), path)

DriveLinkBranchTraversalClosed(w) ==
  Len(w.found) >= DriveLimits.links \/ w.nodes >= DriveLimits.nodes

(* A quoted message or one of the history is put into a fresh object, so   *)
(* that only the others are seen to be active when they come up again.     *)
DriveVisit(node, fresh, relationship, path, depth) ==
  [node |-> node, fresh |-> fresh, relationship |-> relationship,
   path |-> path, depth |-> depth, leaves |-> FALSE]

BranchesOf(value, path, depth) ==
  LET own(nodes) == [i \in DOMAIN nodes |-> DriveVisit(nodes[i], FALSE, "", path, depth)]
      wrapped(nodes, relationship) ==
        [i \in DOMAIN nodes |-> DriveVisit(nodes[i], TRUE, relationship, path, depth)]
  IN own(value.children)
     \o wrapped(value.quotedMessages, "quoted_message")
     \o wrapped(value.threadHistory, "thread_history")
     \o wrapped(value.quotedMessage, "quoted_message")
     \o own(value.contextNode)

WrapperBranches(value, path, depth) ==
  LET nodes == value.message \o value.context
  IN [i \in DOMAIN nodes |-> DriveVisit(nodes[i], FALSE, "", path, depth)]

(* The agenda of one record: its branches in their order, then the return. *)
CollectFromWrapper(w, visit) ==
  LET raw == DriveTree[visit.node]
  IN [w |-> CollectDriveLinks(w, raw.links, visit.path),
      branches |-> WrapperBranches(raw, visit.path, visit.depth + 1)]

CollectFromMessage(w, visit) ==
  LET raw      == DriveTree[visit.node]
      held     == ~visit.fresh /\ raw.message # <<>>
      message  == IF held THEN DriveTree[raw.message[1]] ELSE raw
      label    == [relationship |-> IF visit.relationship # "" THEN visit.relationship
                                    ELSE raw.relationship,
                   name |-> message.name,
                   number |-> IF message.name = "" THEN w.anonymous ELSE 0]
      path     == Append(visit.path, label)
      links    == IF held THEN raw.links \o message.links ELSE raw.links
      text     == IF "plain_url" \in driveInput.options.sources THEN message.text ELSE <<>>
      linked   == CollectDriveLinks([w EXCEPT !.anonymous = @ + 1], links, path)
      noted    == CollectDriveLinks(linked, message.annotations, path)
      matched  == CollectDriveEntries(noted, message.matched, path)
      below    == visit.depth + 1
  IN [w |-> CollectPlainTextDriveUrls(matched, text, path),
      branches |-> IF held THEN BranchesOf(raw, path, below) \o BranchesOf(message, path, below)
                   ELSE BranchesOf(raw, path, below)]

CollectFromRecord(w, visit) ==
  IF DriveTree[visit.node].wrapper /\ ~visit.fresh THEN CollectFromWrapper(w, visit)
  ELSE CollectFromMessage(w, visit)

ActiveNodes(w) == {w.agenda[i].node : i \in {j \in DOMAIN w.agenda : w.agenda[j].leaves}}

(* Only the root is visited although the walk is closed.                   *)
CollectFromNode(w, visit) ==
  LET into == CollectFromRecord([w EXCEPT !.nodes = @ + 1], visit)
      leave == IF visit.fresh THEN <<>> ELSE <<[visit EXCEPT !.leaves = TRUE]>>
  IN IF visit.depth > 0 /\ DriveLinkBranchTraversalClosed(w) THEN DriveCap(w, "nodes", 1)
     ELSE IF visit.depth >= DriveLimits.depth \/ (~visit.fresh /\ visit.node \in ActiveNodes(w))
          THEN DriveCap(w, "deep", 1)
     ELSE IF w.nodes >= DriveLimits.nodes THEN DriveCap(w, "nodes", 1)
     ELSE [into.w EXCEPT !.agenda = into.branches \o leave \o @]

VisitBranch ==
  LET visit == Head(driveWalk.agenda)
      rest  == [driveWalk EXCEPT !.agenda = Tail(@)]
  IN /\ driveWalk.agenda # <<>>
     /\ driveWalk' = IF visit.leaves THEN rest ELSE CollectFromNode(rest, visit)
     /\ UNCHANGED driveInput

DriveInitFrom(inputs) ==
  /\ driveInput \in inputs
  /\ driveWalk = [agenda |-> <<DriveVisit(WalkRoot, FALSE, "", <<>>, 0)>>,
                  found |-> <<>>, nodes |-> 0, scanned |-> 0, urls |-> 0, anonymous |-> 1,
                  capped |-> [limit \in DriveLimitsHit |-> 0]]

DriveInit == DriveInitFrom(DriveInputs)

DriveNext == VisitBranch

DriveSpec == DriveInit /\ [][DriveNext]_driveVars

---------------------------------------------------------------------------
(* The plan, made of what the walk has found.                              *)

DriveCandidates ==
  {driveWalk.found[i].link : i \in
     {j \in DOMAIN driveWalk.found : ParseDriveUrl(driveWalk.found[j].link.url).drive}}

(* Every kind of file can be exported or downloaded unless the policy      *)
(* blocks it; a negative entry of the cache rules a file out.              *)
Retrievable(link) ==
  LET candidate == DriveCandidateFromEntry(link)
  IN /\ candidate.reasons = {}
     /\ candidate.kind \notin driveInput.options.blockedKinds
     /\ candidate.id \notin driveInput.options.negative

TraversalTruncated == \E limit \in DriveLimitsHit : driveWalk.capped[limit] > 0

DrivePlanStatus ==
  LET blocked == {link \in DriveCandidates : ~Retrievable(link)}
  IN IF TraversalTruncated THEN "partial"
     ELSE IF DriveCandidates # {} /\ blocked = DriveCandidates THEN "blocked"
     ELSE IF blocked # {} THEN "partial"
     ELSE "ready"

---------------------------------------------------------------------------
(* The records a record leads to, and the links that are in it, whatever   *)
(* the way to it.                                                          *)
RecordsIn(raw) ==
  Range(raw.message) \cup Range(raw.context)
    \cup IF raw.wrapper THEN {}
         ELSE UNION {Range(raw.children), Range(raw.quotedMessages), Range(raw.threadHistory),
                     Range(raw.quotedMessage), Range(raw.contextNode)}

ReachableRecords(tree, root) ==
  LET within[k \in 0..Cardinality(DOMAIN tree)] ==
        IF k = 0 THEN {root}
        ELSE within[k - 1] \cup UNION {RecordsIn(tree[node]) : node \in within[k - 1]}
  IN within[Cardinality(DOMAIN tree)]

DriveLinksIn(raw) ==
  {link \in Range(raw.links)
             \cup IF raw.wrapper THEN {}
                  ELSE UNION {Range(raw.annotations), Range(raw.matched), Range(raw.text)} :
     DriveSourceAllowed(link) /\ ParseDriveUrl(link.url).drive}

FoundAs(i, link, raw) ==
  /\ driveWalk.found[i].link.url = link.url
  /\ raw.name # "" => Last(driveWalk.found[i].path).name = raw.name

(* A plan without a note of truncation holds every Drive link of every     *)
(* message in reach of what it was made from, under each name a message    *)
(* goes by, in spite of shared messages; and it is "ready" only when each  *)
(* of the files can be read.  Of two links of a message with one URL, the  *)
(* first says what kind of file it is.                                     *)
DriveLinksAccounted ==
  driveWalk.agenda = <<>> /\ ~TraversalTruncated =>
    \A node \in ReachableRecords(DriveTree, WalkRoot) : \A link \in DriveLinksIn(DriveTree[node]) :
      \E i \in DOMAIN driveWalk.found :
        /\ FoundAs(i, link, DriveTree[node])
        /\ DrivePlanStatus = "ready" => Retrievable(driveWalk.found[i].link)

(* Of a message and its context no link is left out without saying so,     *)
(* neither by the planner of Chat links nor by that of Drive links,        *)
(* however messages are shared and whichever budget ends the walk.         *)
LinksAccounted == ChatLinksAccounted /\ DriveLinksAccounted

(* guides/2026-07-05-drive-link-retrieval.md:27-42: the planner accepts a  *)
(* normalized message or a context tree, and keeps the links in quoted     *)
(* messages and in the children of its contextNode.  So the plan of such   *)
(* an input, when it is not truncated, holds what is in reach of the input *)
(* itself.                                                                 *)
PlanCoversItsInput ==
  driveWalk.agenda = <<>> /\ ~TraversalTruncated =>
    \A node \in ReachableRecords(driveInput.tree, driveInput.root) :
      \A link \in DriveLinksIn(driveInput.tree[node]) :
        \E i \in DOMAIN driveWalk.found : FoundAs(i, link, driveInput.tree[node])
=============================================================================
