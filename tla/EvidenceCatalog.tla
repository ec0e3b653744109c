--------------------------- MODULE EvidenceCatalog ---------------------------
(* The evidence on one security: the tables sources, evidence_chunks and    *)
(* corporate_event_sources.  Feed daemons disclose events and read their    *)
(* documents; analyses load what is on file, add pages of the web, and save *)
(* what their outputs rest on.  A source is known by its URI: the unique    *)
(* index is on security, URI and date of publication, and a URI stands for  *)
(* all three.                                                              *)
EXTENDS Integers, FiniteSets, Sequences, Functions

CONSTANTS Uris,
          Attachments,  \* those of documents an exchange lists
          Pages,        \* those a search of the web finds
          Bars,         \* that of the price history, db://market-bars/...
          Ingestors,
          Analyses,
          Scenes,       \* what is listed and who takes part
          EventLimit,   \* the events a context shows: 100 in the code
          EnoughPages,  \* the cached pages that save a search
          MaxReadings,  \* bound: the documents an ingestor stores
          MaxKills      \* bound: processes killed

ASSUME CatalogAssumption ==
  /\ Attachments \subseteq Uris /\ Pages \subseteq Uris /\ Bars \in Uris
  /\ \A s \in Scenes :
       /\ DOMAIN s.lands \subseteq Attachments /\ Range(s.lands) \subseteq Uris
       /\ s.media \in [DOMAIN s.lands -> {"text", "audio", "visual"}]
       /\ \A u, v \in DOMAIN s.lands : s.lands[u] = s.lands[v] => s.media[u] = s.media[v]
       /\ s.lengths \in Seq(Nat) \ {<<>>}
       /\ s.ingestors \subseteq Ingestors /\ s.analyses \subseteq Analyses /\ s.web \in BOOLEAN
  /\ Ingestors \cap Analyses = {}
  /\ EventLimit \in Nat /\ EnoughPages \in Nat

VARIABLES setting,   \* the final URLs of attachments (lands), the media type their
                     \* answers have, the chunks of text of their versions (lengths),
                     \* who there is, and whether external calls are enabled (web)
          version,   \* of the document at a URL
          events,    \* attachments of corporate_events, the oldest first
          sources,   \* the row of a URI, or NoRow
          chunks,    \* evidence_chunks: [uri, id, index, section, embedded]
          links,     \* parse_status in corporate_event_sources, or "none"
          cited,     \* claim_evidence: an analysis and the id of a chunk
          ingest,    \* what an ingestor holds
          written,   \* the batches of chunks it has stored
          analysis,  \* what an analysis holds
          kills

catalogVars ==
  <<setting, version, events, sources, chunks, links, cited, ingest, written, analysis, kills>>

NoRow == [type |-> "none", checksum |-> 0, recent |-> FALSE]
HasRow == {u \in Uris : sources[u] # NoRow}
SourceRow(type, checksum) == [type |-> type, checksum |-> checksum, recent |-> TRUE]
Stored(rows, new) == [u \in Uris |-> IF rows[u] = NoRow THEN new[u] ELSE rows[u]]

Resting == [pc |-> "idle", event |-> Bars, version |-> 0, doomed |-> {}, status |-> "none"]
NotAsked == [pc |-> "idle", base |-> {}, recent |-> {}, refs |-> {}, cached |-> {}, saved |-> {}]

ChunksAt(u) == {c \in chunks : c.uri = u}
BatchOf(r) == <<r.id[1], r.id[2]>>

-----------------------------------------------------------------------------
(* The feeds.                                                               *)

(* A listing names an announcement: its URI is that of the attachment.     *)
Disclose(u) ==
  /\ u \notin Range(events)
  /\ events' = Append(events, u)
  /\ sources' = Stored(sources, [v \in Uris |-> IF v = u THEN SourceRow("exchange_filing", 0) ELSE NoRow])
  /\ UNCHANGED <<setting, version, chunks, links, cited, ingest, written, analysis, kills>>

(* The exchange puts a revised document under the URL.                      *)
Revise(u) ==
  /\ version[u] < Len(setting.lengths)
  /\ version' = [version EXCEPT ![u] = @ + 1]
  /\ UNCHANGED <<setting, events, sources, chunks, links, cited, ingest, written, analysis, kills>>

FetchDocument(i, u) ==
  /\ ingest[i].pc = "idle" /\ written[i] < MaxReadings /\ u \in Range(events)
  /\ ingest' = [ingest EXCEPT ![i] = [Resting EXCEPT !.pc = "source", !.event = u, !.version = version[u]]]
  /\ UNCHANGED <<setting, version, events, sources, chunks, links, cited, written, analysis, kills>>

(* The row of the document: if there is one it keeps its type, its date and *)
(* the checksum it has.                                                     *)
EnsureSource(i) ==
  LET u == setting.lands[ingest[i].event]
      type == IF setting.media[ingest[i].event] = "audio" THEN "earnings_audio" ELSE "exchange_filing"
      row == sources[u]
      checksum == IF row.checksum = 0 THEN ingest[i].version ELSE row.checksum
  IN /\ ingest[i].pc = "source"
     /\ sources' = [sources EXCEPT ![u] = IF row = NoRow THEN SourceRow(type, ingest[i].version)
                                          ELSE [row EXCEPT !.checksum = checksum]]
     /\ ingest' = [ingest EXCEPT ![i].pc = "read"]
     /\ UNCHANGED <<setting, version, events, chunks, links, cited, written, analysis, kills>>

(* The document is not read: it cannot be parsed, or no transcript is made. *)
(* A transcriber that declines leaves not even a link.                      *)
ReadFails(i) ==
  /\ ingest[i].pc = "read"
  /\ \/ \E s \in {"failed"} \cup (IF setting.media[ingest[i].event] = "audio" THEN {"unsupported"} ELSE {}) :
          ingest' = [ingest EXCEPT ![i].pc = "link", ![i].status = s]
     \/ setting.media[ingest[i].event] = "audio" /\ ingest' = [ingest EXCEPT ![i] = Resting]
  /\ UNCHANGED <<setting, version, events, sources, chunks, links, cited, written, analysis, kills>>

(* The transaction of the chunks begins with a delete, which sees the rows  *)
(* that are committed at that moment.                                       *)
DeleteChunks(i) ==
  /\ ingest[i].pc = "read"
  /\ ingest' = [ingest EXCEPT ![i].pc = "insert", ![i].doomed = ChunksAt(setting.lands[ingest[i].event])]
  /\ UNCHANGED <<setting, version, events, sources, chunks, links, cited, written, analysis, kills>>

(* The chunks of a document: its text, or its transcript, with embeddings   *)
(* if they could be had, then what a model sees on its pages.               *)
NewChunks(i, embedded, seen) ==
  LET u == ingest[i].event
      n == setting.lengths[ingest[i].version]
      section == IF setting.media[u] = "audio" THEN "earnings_transcript" ELSE "text"
      Chunk(k, s, e) == [uri |-> setting.lands[u], id |-> <<i, written[i] + 1, k>>, index |-> k,
                            section |-> s, embedded |-> e]
  IN {Chunk(k, section, embedded) : k \in 0..(n - 1)}
       \cup (IF setting.media[u] = "visual" /\ seen THEN {Chunk(n, "multimodal_extraction", FALSE)} ELSE {})

(* A source has one chunk of a number (the unique constraint).              *)
NoClash(left, new) == FALSE   \* a mutant: without it
Clash(left, new) == \E c \in left, d \in new : c.index = d.index

(* It commits unless a chunk that it did not see has the number of one of   *)
(* its own; with the chunks that go, the links of claims to them go too.    *)
InsertChunks(i) ==
  \E embedded, seen \in BOOLEAN :
    LET new == NewChunks(i, embedded, seen)
        doomed == ingest[i].doomed
        left == ChunksAt(setting.lands[ingest[i].event]) \ doomed
    IN /\ ingest[i].pc = "insert"
       /\ IF Clash(left, new)
          THEN /\ ingest' = [ingest EXCEPT ![i] = Resting]
               /\ UNCHANGED <<chunks, cited, written>>
          ELSE /\ chunks' = (chunks \ doomed) \cup new
               /\ cited' = {p \in cited : \A c \in doomed : c.id # p[2]}
               /\ written' = [written EXCEPT ![i] = @ + 1]
               /\ ingest' = [ingest EXCEPT ![i].pc = "link", ![i].doomed = {}, ![i].status = "parsed"]
       /\ UNCHANGED <<setting, version, events, sources, links, analysis, kills>>

LinkEvent(i) ==
  /\ ingest[i].pc = "link"
  /\ links' = [links EXCEPT ![ingest[i].event] = ingest[i].status]
  /\ ingest' = [ingest EXCEPT ![i] = Resting]
  /\ UNCHANGED <<setting, version, events, sources, chunks, cited, written, analysis, kills>>

KillIngestor(i) ==
  /\ ingest[i] # Resting /\ kills < MaxKills
  /\ ingest' = [ingest EXCEPT ![i] = Resting] /\ kills' = kills + 1
  /\ UNCHANGED <<setting, version, events, sources, chunks, links, cited, written, analysis>>

-----------------------------------------------------------------------------
(* The analyses.                                                            *)

(* What a report refers to: a chunk on file by its own id, anything else by *)
(* an id made for it.                                                       *)
Ref(id, type, u, page, checksum, priority, section) ==
  [id |-> id, type |-> type, uri |-> u, page |-> page, checksum |-> checksum,
   priority |-> priority, section |-> section]
FreshRef(a, type, u, checksum, priority) ==
  Ref(<<a, u, type>>, type, u, -1, checksum, priority, "reference")

(* Of two with the same key the first is kept.                              *)
SameEvidence(r, s) == r.type = s.type /\ r.uri = s.uri /\ r.page = s.page /\ r.checksum = s.checksum
ThenOthers(first, others) == first \cup {r \in others : \A s \in first : ~SameEvidence(r, s)}

LatestEvents == {events[k] : k \in {k \in DOMAIN events : k > Len(events) - EventLimit}}

EventRef(a, u) ==
  LET row == sources[u] IN
  FreshRef(a, row.type, u, row.checksum, IF row.type = "exchange_filing" THEN 1 ELSE 3)

LoadContext(a) ==
  /\ analysis[a].pc = "idle"
  /\ analysis' = [analysis EXCEPT ![a].pc = "filings",
       ![a].base = {EventRef(a, u) : u \in LatestEvents} \cup {FreshRef(a, "market_data", Bars, 0, 2)}]
  /\ UNCHANGED <<setting, version, events, sources, chunks, links, cited, ingest, written, kills>>

PageOf(c) == IF c.section = "earnings_transcript" THEN -1 ELSE c.index

(* A chunk as the reader of the events' documents labels it.                *)
FilingRef(c) ==
  LET row == sources[c.uri]
      ai == c.section = "multimodal_extraction"
      audio == row.type = "earnings_audio" \/ c.section = "earnings_transcript"
  IN Ref(c.id, IF ai THEN "ai_extraction" ELSE IF audio THEN "audio_transcript" ELSE row.type,
         c.uri, PageOf(c), row.checksum, IF ai THEN 4 ELSE IF audio THEN 2 ELSE 1, c.section)

(* The chunks of documents that an event is linked to as parsed; of the     *)
(* chunks of a transcript only the first is told apart from the others.     *)
ReadFilings(a) ==
  LET linked == {c \in chunks : \E u \in DOMAIN setting.lands : links[u] = "parsed" /\ setting.lands[u] = c.uri}
      first == {c \in linked : \A d \in ChunksAt(c.uri) : PageOf(d) = PageOf(c) => c.index <= d.index}
  IN /\ analysis[a].pc = "filings"
     /\ analysis' = [analysis EXCEPT ![a].pc = "semantic", ![a].recent = {FilingRef(c) : c \in first}]
     /\ UNCHANGED <<setting, version, events, sources, chunks, links, cited, ingest, written, kills>>

(* The same as the search by meaning labels it, which looks at the type of  *)
(* the source and not at links; any of them may be similar enough, and the  *)
(* search may fail.                                                         *)
SemanticRef(c) ==
  Ref(c.id, sources[c.uri].type, c.uri, PageOf(c), sources[c.uri].checksum, 1, c.section)
Searchable ==
  {c \in chunks : /\ c.embedded /\ c.section # "multimodal_extraction"
                  /\ sources[c.uri].type = "exchange_filing"}

SearchSemantic(a) ==
  \E found \in SUBSET {SemanticRef(c) : c \in Searchable} :
    LET filings == ThenOthers(found, analysis[a].recent) IN
    /\ analysis[a].pc = "semantic" /\ \A r, s \in found : SameEvidence(r, s) => r = s
    /\ analysis' = [analysis EXCEPT ![a].pc = "cache", ![a].base = {}, ![a].recent = {},
                      ![a].refs = ThenOthers(analysis[a].base, filings)]
    /\ UNCHANGED <<setting, version, events, sources, chunks, links, cited, ingest, written, kills>>

CachedPages == {u \in HasRow : sources[u].type = "web_search" /\ sources[u].recent}
PageRef(a, u) ==
  IF u \in Attachments THEN FreshRef(a, "official_web", u, 0, 1) ELSE FreshRef(a, "web", u, 0, 3)

(* Pages come after the evidence so far, of which one is kept of a type, a *)
(* source and a page: what came from the context before what was read.     *)
WithPages(a, us) ==
  {r \in analysis[a].refs :
     r.section = "reference"
     \/ \A s \in analysis[a].refs :
          s.section = "reference" => ~SameEvidence(r, [s EXCEPT !.checksum = r.checksum])}
  \cup {PageRef(a, u) : u \in us}

(* Pages of late are used as they are when there are enough of them, and    *)
(* none is asked for where external calls are disabled.                     *)
AskCache(a) ==
  /\ analysis[a].pc = "cache"
  /\ \/ ~setting.web /\ analysis' = [analysis EXCEPT ![a].pc = "save"]
     \/ /\ setting.web /\ Cardinality(CachedPages) >= EnoughPages
        /\ analysis' = [analysis EXCEPT ![a].pc = "save", ![a].refs = WithPages(a, CachedPages)]
     \/ /\ setting.web /\ Cardinality(CachedPages) < EnoughPages
        /\ analysis' = [analysis EXCEPT ![a].pc = "search", ![a].cached = CachedPages]
  /\ UNCHANGED <<setting, version, events, sources, chunks, links, cited, ingest, written, kills>>

(* Otherwise a search finds some, whose rows are kept if they are on file;  *)
(* if it fails, the cached ones have to do.                                 *)
SearchWeb(a) ==
  LET cached == analysis[a].cached IN
  /\ analysis[a].pc = "search"
  /\ \/ \E found \in SUBSET Pages :
          /\ sources' = Stored(sources, [u \in Uris |-> IF u \in found THEN SourceRow("web_search", 0) ELSE NoRow])
          /\ analysis' = [analysis EXCEPT ![a].pc = "save", ![a].cached = {},
                            ![a].refs = WithPages(a, found \cup cached)]
     \/ /\ cached = {} /\ analysis' = [analysis EXCEPT ![a].pc = "save"]
        /\ UNCHANGED sources
  /\ UNCHANGED <<setting, version, events, chunks, links, cited, ingest, written, kills>>

(* Evidence that no chunk has the id of gets a source of its own and a      *)
(* chunk that holds its excerpt.                                            *)
SourceMissing(S) == {r \in S : sources[r.uri] = NoRow}   \* a mutant: on conflict do nothing
Missing(S) == {r \in S : \A c \in chunks : c.id # r.id}
SourceIsNew(S) ==
  /\ \A r \in S : sources[r.uri] = NoRow
  /\ \A r, s \in S : r.uri = s.uri => r = s
ReferenceChunk(r) ==
  [uri |-> r.uri, id |-> r.id, index |-> 0, section |-> "reference", embedded |-> FALSE]
ReferenceRow(S, u) ==
  IF \E r \in S : r.uri = u
  THEN LET r == CHOOSE r \in S : r.uri = u IN SourceRow(r.type, r.checksum)
  ELSE NoRow

(* The transaction of one output, which has all of the evidence or, once    *)
(* before that, a part of it: one source that is there already fails it,    *)
(* and the analysis; a claim is linked to the chunks there are.             *)
SaveOutput(a) ==
  \E S \in {{r} : r \in analysis[a].refs} \cup {analysis[a].refs} :
    LET new == Missing(S) IN
    /\ analysis[a].pc = "save" /\ (analysis[a].saved = {} \/ S = analysis[a].refs)
    /\ IF SourceIsNew(new)
       THEN /\ sources' = Stored(sources, [u \in Uris |-> ReferenceRow(new, u)])
            /\ chunks' = chunks \cup {ReferenceChunk(r) : r \in new}
            /\ cited' = cited \cup {<<a, c.id>> : c \in {c \in chunks' : \E r \in S : r.id = c.id}}
            /\ analysis' = [analysis EXCEPT ![a].saved = @ \cup S,
                              ![a].pc = IF S = analysis[a].refs THEN "saved" ELSE "save"]
       ELSE /\ analysis' = [analysis EXCEPT ![a].pc = "failed"]
            /\ UNCHANGED <<sources, chunks, cited>>
    /\ UNCHANGED <<setting, version, events, links, ingest, written, kills>>

(* A page is no longer of late.                                             *)
PageAges(u) ==
  /\ u \in CachedPages
  /\ sources' = [sources EXCEPT ![u].recent = FALSE]
  /\ UNCHANGED <<setting, version, events, chunks, links, cited, ingest, written, analysis, kills>>

-----------------------------------------------------------------------------
CatalogInit ==
  /\ setting \in Scenes
  /\ version = [u \in Attachments |-> 1] /\ events = <<>>
  /\ sources = [u \in Uris |-> NoRow] /\ chunks = {} /\ cited = {}
  /\ links = [u \in Attachments |-> "none"]
  /\ ingest = [i \in Ingestors |-> Resting] /\ written = [i \in Ingestors |-> 0]
  /\ analysis = [a \in Analyses |-> NotAsked] /\ kills = 0

CatalogNext ==
  \/ \E u \in DOMAIN setting.lands :
       Disclose(u) \/ Revise(u) \/ \E i \in setting.ingestors : FetchDocument(i, u)
  \/ \E i \in setting.ingestors :
       \/ EnsureSource(i) \/ ReadFails(i) \/ DeleteChunks(i) \/ InsertChunks(i)
       \/ LinkEvent(i) \/ KillIngestor(i)
  \/ \E a \in setting.analyses :
       \/ LoadContext(a) \/ ReadFilings(a) \/ SearchSemantic(a)
       \/ AskCache(a) \/ SearchWeb(a) \/ SaveOutput(a)
  \/ \E u \in Uris : PageAges(u)

CatalogSpec == CatalogInit /\ [][CatalogNext]_catalogVars
-----------------------------------------------------------------------------
(* The chunks of a source are those of one reading, from the first to the  *)
(* last, whoever reads the document at the same time or dies; and a claim  *)
(* is linked to no chunk that is gone.                                      *)
DocumentsAreWhole ==
  /\ \A c, d \in chunks : c.uri = d.uri => BatchOf(c) = BatchOf(d)
  /\ \A c \in chunks : \A k \in 0..(c.index - 1) : \E d \in ChunksAt(c.uri) : d.index = k
  /\ \A p \in cited : \E c \in chunks : c.id = p[2]

(* "Transcript evidence ... cannot independently verify primary numeric     *)
(* filing facts": the search by meaning takes a transcript for a filing     *)
(* when the disclosure was stored under its URL, but an analysis that knows *)
(* the event refers to that instead.                                        *)
TranscriptsAreSecondary ==
  \A a \in Analyses : \A r \in analysis[a].refs :
    r.section = "earnings_transcript" /\ r.priority = 1 =>
      \A s \in analysis[a].refs : s.uri = r.uri /\ s.type = r.type /\ s # r => s.checksum = 0

(* What an ingestion leaves and an analysis is told holds together.         *)
EvidenceIsWhole == DocumentsAreWhole /\ TranscriptsAreSecondary

(* An analysis reads the chunks on file twice, with a document replaced in  *)
(* between, perhaps, and saves its outputs one after the other: what is     *)
(* saved rests on one version of each document.                             *)
ReportsAreOfOneVersion ==
  \A a \in Analyses : analysis[a].pc = "saved" =>
    \A r, s \in analysis[a].refs :
      r.uri = s.uri /\ "reference" \notin {r.section, s.section} => BatchOf(r) = BatchOf(s)

(* Financial data are "fetched once per security, cached in the database,  *)
(* and reused by every research request after that", pages by "repeated    *)
(* research": no analysis fails for what is on file.                        *)
AnalysesAreSaved == \A a \in Analyses : analysis[a].pc # "failed"
=============================================================================
