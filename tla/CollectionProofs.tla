---------------------------- MODULE CollectionProofs ----------------------------
(* What is collected: the evidence that ingestors read and analyses gather,  *)
(* for any documents, any number of daemons and analyses, and any steps      *)
(* between theirs; and the sockets of the live market workers.               *)
EXTENDS EvidenceCatalog, UpstoxStream, TLAPS

-----------------------------------------------------------------------------
(* What a row, a chunk, a reference, an ingestor and an analysis may hold.   *)
RowTypes == {"exchange_filing", "earnings_audio", "web_search", "market_data", "official_web", "web"}
Contextual == {"market_data", "official_web", "web"}
RefTypes == RowTypes \cup {"ai_extraction", "audio_transcript"}
Sections == {"text", "earnings_transcript", "multimodal_extraction", "reference"}
Row == [type : RowTypes \cup {"none"}, checksum : Nat, recent : BOOLEAN]
Ids == (Ingestors \X Nat \X Nat) \cup (Analyses \X Uris \X RefTypes)
Chunk == [uri : Uris, id : Ids, index : Nat, section : Sections, embedded : BOOLEAN]
Reference == [id : Ids, type : RefTypes, uri : Uris, page : Int, checksum : Nat,
              priority : 1..4, section : Sections]
Hands == [pc : {"idle", "source", "read", "insert", "link"}, event : Uris, version : Nat,
          doomed : SUBSET Chunk, status : {"none", "failed", "unsupported", "parsed"}]
Asked == [pc : {"idle", "filings", "semantic", "cache", "search", "save", "saved", "failed"},
          base : SUBSET Reference, recent : SUBSET Reference, refs : SUBSET Reference,
          cached : SUBSET Uris, saved : SUBSET Reference]

CatalogTypeOK ==
  /\ setting \in Scenes
  /\ version \in [Attachments -> Nat] /\ \A u \in Attachments : version[u] \in 1..Len(setting.lengths)
  /\ events \in Seq(Attachments)
  /\ sources \in [Uris -> Row] /\ \A u \in Uris : sources[u].type = "none" => sources[u] = NoRow
  /\ chunks \subseteq Chunk
  /\ ingest \in [Ingestors -> Hands]
  /\ written \in [Ingestors -> Nat]
  /\ analysis \in [Analyses -> Asked]

(* URLs that answer with a recording.                                       *)
AudioUris == {setting.lands[v] : v \in {v \in DOMAIN setting.lands : setting.media[v] = "audio"}}

(* An id an ingestor made was made for a batch it has stored.               *)
Given(id) == id[1] \in Ingestors => id[2] <= written[id[1]]

(* A chunk has a source; it was read from a document, of one kind with the  *)
(* others of its URL, or it holds what an analysis refers to.               *)
ChunkOK(c) ==
  /\ sources[c.uri] # NoRow /\ Given(c.id)
  /\ c.section = "reference" => c.id[1] \in Analyses /\ sources[c.uri].type \in Contextual
  /\ c.section # "reference" =>
       /\ c.id[1] \in Ingestors /\ (c.section = "earnings_transcript" <=> c.uri \in AudioUris)
       /\ \A d \in chunks : d.id = c.id => d.uri = c.uri

(* What an ingestor is about to delete are all of the chunks at its URL, or *)
(* chunks that are gone.                                                    *)
IngestOK(i) ==
  /\ ingest[i].pc # "idle" =>
       ingest[i].event \in DOMAIN setting.lands /\ ingest[i].version \in 1..Len(setting.lengths)
  /\ ingest[i].pc \in {"read", "insert"} => sources[setting.lands[ingest[i].event]] # NoRow
  /\ ingest[i].pc = "insert" =>
       /\ \A c \in ingest[i].doomed : c.uri = setting.lands[ingest[i].event] /\ Given(c.id)
       /\ \/ ingest[i].doomed = ChunksAt(setting.lands[ingest[i].event])
          \/ ingest[i].doomed \cap chunks = {}

(* A reference to a document names a chunk that was on file under the URL;  *)
(* the sources of other references are on file or contextual.               *)
RefOK(r) ==
  /\ Given(r.id)
  /\ r.section = "reference" /\ sources[r.uri] = NoRow => r.id[1] \in Analyses /\ r.type \in Contextual
  /\ r.section # "reference" =>
       /\ sources[r.uri] # NoRow /\ r.id[1] \in Ingestors
       /\ \A c \in chunks : c.id = r.id => c.uri = r.uri
  /\ r.section = "earnings_transcript" /\ r.priority = 1 => r.type = "exchange_filing"

BaseOK(r) ==
  /\ r.section = "reference" /\ r.page = -1
  /\ r.type = "exchange_filing" => sources[r.uri] # NoRow /\ r.checksum \in {0, sources[r.uri].checksum}
RecentOK(r) ==
  /\ r.section = "earnings_transcript" => r.priority # 1
  /\ r.type = "exchange_filing" => r.uri \notin AudioUris

Secondary(R) ==
  \A r \in R : r.section = "earnings_transcript" /\ r.priority = 1 =>
    \A s \in R : s.uri = r.uri /\ s.type = r.type /\ s # r => s.checksum = 0
OneVersion(R) ==
  \A r, s \in R : r.uri = s.uri /\ "reference" \notin {r.section, s.section} => BatchOf(r) = BatchOf(s)

AnalysisOK(a) ==
  /\ \A r \in analysis[a].base : RefOK(r) /\ BaseOK(r)
  /\ \A r \in analysis[a].recent : RefOK(r) /\ RecentOK(r)
  /\ \A r \in analysis[a].refs : RefOK(r)
  /\ Secondary(analysis[a].refs)
  /\ analysis[a].pc = "saved" => OneVersion(analysis[a].refs)

(* The inductive invariant.                                                 *)
Catalog ==
  /\ CatalogTypeOK
  /\ \A u \in Range(events) : sources[u] # NoRow
  /\ \A c \in chunks : ChunkOK(c)
  /\ \A i \in Ingestors : IngestOK(i)
  /\ \A a \in Analyses : AnalysisOK(a)
  /\ DocumentsAreWhole

-----------------------------------------------------------------------------
(* Sources stay, with their types; a checksum is given once; the chunks at  *)
(* a URL stay or go together; and what comes has an id nobody has seen, or  *)
(* a source nobody had.                                                     *)
RowsStay ==
  \A u \in Uris : sources[u] # NoRow =>
    /\ sources'[u] # NoRow /\ sources'[u].type = sources[u].type
    /\ sources[u].checksum # 0 => sources'[u].checksum = sources[u].checksum
Grows ==
  /\ UNCHANGED setting /\ RowsStay
  /\ \A i \in Ingestors : written[i] <= written'[i]
  /\ \A u \in Uris : ChunksAt(u)' = ChunksAt(u) \/ ChunksAt(u)' \cap ChunksAt(u) = {}
  /\ \A c \in chunks' \ chunks :
       \/ c.id[1] \in Ingestors /\ c.id[2] > written[c.id[1]]
       \/ c.id[1] \in Analyses /\ sources[c.uri] = NoRow

(* The two kinds of ids do not meet.                                        *)
LEMMA IdTypes ==
  ASSUME NEW id \in Ids
  PROVE  /\ id[1] \in Ingestors \cup Analyses
         /\ id[1] \in Ingestors => id[2] \in Nat
         /\ ~(id[1] \in Ingestors /\ id[1] \in Analyses)
BY CatalogAssumption DEF Ids

(* An id that was given stays so, and nothing new has it.                   *)
LEMMA GivenStays ==
  ASSUME CatalogTypeOK, CatalogTypeOK', Grows, NEW id \in Ids, Given(id)
  PROVE  /\ Given(id)'
         /\ id[1] \in Ingestors => \A c \in chunks' \ chunks : c.id # id
<1>1. Given(id)'
  <2> SUFFICES ASSUME id[1] \in Ingestors PROVE id[2] <= written'[id[1]]
    BY DEF Given
  <2>1. id[2] \in Nat /\ id[2] <= written[id[1]] /\ written[id[1]] <= written'[id[1]]
    BY IdTypes DEF Given, Grows
  <2>2. written[id[1]] \in Nat /\ written'[id[1]] \in Nat
    BY DEF CatalogTypeOK
  <2> QED
    BY <2>1, <2>2
<1>2. ASSUME id[1] \in Ingestors, NEW c \in chunks' \ chunks, c.id = id PROVE FALSE
  <2>1. id[2] > written[id[1]]
    BY <1>2, IdTypes DEF Grows
  <2>2. id[2] \in Nat /\ written[id[1]] \in Nat /\ id[2] <= written[id[1]]
    BY <1>2, IdTypes DEF CatalogTypeOK, Given
  <2> QED
    BY <2>1, <2>2
<1> QED
  BY <1>1, <1>2

(* Nor does what is known of a reference change,                            *)
LEMMA RefStays ==
  ASSUME CatalogTypeOK, CatalogTypeOK', Grows, NEW r \in Reference, RefOK(r)
  PROVE  RefOK(r)' /\ (BaseOK(r) => BaseOK(r)') /\ (RecentOK(r) => RecentOK(r)')
<1>1. r.uri \in Uris /\ r.id \in Ids /\ r.checksum \in Nat
  BY DEF Reference
<1>2. Given(r.id)' /\ (r.id[1] \in Ingestors => \A c \in chunks' \ chunks : c.id # r.id)
  BY <1>1, GivenStays DEF RefOK
<1>3. sources[r.uri] # NoRow => /\ sources'[r.uri] # NoRow /\ sources'[r.uri].type = sources[r.uri].type
                                /\ sources[r.uri].checksum # 0 => sources'[r.uri].checksum = sources[r.uri].checksum
  BY <1>1 DEF Grows, RowsStay
<1>4. RefOK(r)'
  BY <1>2, <1>3 DEF RefOK
<1>5. BaseOK(r) => BaseOK(r)'
  BY <1>3 DEF BaseOK
<1>6. RecentOK(r) => RecentOK(r)'
  BY DEF RecentOK, AudioUris, Grows
<1> QED
  BY <1>4, <1>5, <1>6

(* or of an analysis that does not move,                                    *)
LEMMA AnalysisStays ==
  ASSUME CatalogTypeOK, CatalogTypeOK', Grows, NEW a \in Analyses, AnalysisOK(a),
         analysis'[a] = analysis[a]
  PROVE  AnalysisOK(a)'
<1>1. analysis[a] \in Asked
  BY DEF CatalogTypeOK
<1>2. /\ analysis[a].base \subseteq Reference /\ analysis[a].recent \subseteq Reference
      /\ analysis[a].refs \subseteq Reference
  BY <1>1 DEF Asked
<1> QED
  BY <1>2, RefStays DEF AnalysisOK, Secondary, OneVersion

(* of a chunk that stays,                                                   *)
LEMMA ChunkStays ==
  ASSUME CatalogTypeOK, CatalogTypeOK', Grows, NEW c \in chunks, ChunkOK(c)
  PROVE  ChunkOK(c)'
<1>1. c.uri \in Uris /\ c.id \in Ids
  BY DEF CatalogTypeOK, Chunk
<1>2. /\ sources'[c.uri] # NoRow /\ sources'[c.uri].type = sources[c.uri].type
      /\ AudioUris' = AudioUris
  BY <1>1 DEF ChunkOK, Grows, RowsStay, AudioUris
<1>3. Given(c.id)' /\ (c.id[1] \in Ingestors => \A d \in chunks' \ chunks : d.id # c.id)
  BY <1>1, GivenStays DEF ChunkOK
<1> QED
  BY <1>2, <1>3 DEF ChunkOK

(* or of an ingestor that does not move.                                    *)
LEMMA IngestStays ==
  ASSUME CatalogTypeOK, CatalogTypeOK', Grows, NEW i \in Ingestors, IngestOK(i),
         ingest'[i] = ingest[i]
  PROVE  IngestOK(i)'
<1> DEFINE u == setting.lands[ingest[i].event]
<1>1. setting' = setting /\ ingest[i] \in Hands
  BY DEF CatalogTypeOK, Grows
<1>2. CASE ingest[i].pc = "idle"
  BY <1>2 DEF IngestOK
<1>3. CASE ingest[i].pc # "idle"
  <2>1. ingest[i].event \in DOMAIN setting.lands /\ u \in Uris
    BY <1>3, CatalogAssumption DEF IngestOK, CatalogTypeOK, Range
  <2>2. ingest[i].pc \in {"read", "insert"} => sources[u] # NoRow /\ sources'[u] # NoRow
    BY <2>1 DEF IngestOK, Grows, RowsStay
  <2>3. ASSUME ingest[i].pc = "insert"
        PROVE  /\ \A c \in ingest[i].doomed : c.uri = u /\ Given(c.id)'
               /\ ingest[i].doomed = ChunksAt(u)' \/ ingest[i].doomed \cap chunks' = {}
    <3>1. \A c \in ingest[i].doomed : c.uri = u /\ Given(c.id) /\ c.id \in Ids
      BY <1>1, <2>3 DEF IngestOK, Hands, Chunk
    <3>2. \A c \in ingest[i].doomed : Given(c.id)'
      BY <3>1, GivenStays
    <3>3. ASSUME NEW c \in ingest[i].doomed, c \in chunks', c \notin chunks PROVE FALSE
      <4>1. c.id[1] \in Ingestors \/ (c.id[1] \in Analyses /\ sources[u] = NoRow)
        BY <3>1, <3>3 DEF Grows
      <4> QED
        BY <2>2, <2>3, <3>1, <3>3, <4>1, GivenStays
    <3>4. ingest[i].doomed = ChunksAt(u) \/ ingest[i].doomed \cap chunks = {}
      BY <2>3 DEF IngestOK
    <3>5. CASE ingest[i].doomed \cap chunks = {}
      BY <3>1, <3>2, <3>3, <3>5
    <3>6. CASE ingest[i].doomed = ChunksAt(u)
      <4>1. ChunksAt(u)' = ChunksAt(u) \/ ChunksAt(u)' \cap ChunksAt(u) = {}
        BY <2>1 DEF Grows
      <4>2. ChunksAt(u)' = {c \in chunks' : c.uri = u}
        BY <1>1 DEF ChunksAt
      <4> QED
        BY <3>1, <3>2, <3>6, <4>1, <4>2
    <3> QED
      BY <3>4, <3>5, <3>6
  <2> QED
    BY <1>1, <1>3, <2>2, <2>3 DEF IngestOK
<1> QED
  BY <1>2, <1>3

(* A step keeps the invariant when the evidence grows and the processes     *)
(* that move, the rows of events and the new chunks are as they should be.  *)
LEMMA CatalogStep ==
  ASSUME Catalog, CatalogTypeOK', Grows,
         \A i \in Ingestors : ingest'[i] = ingest[i] \/ IngestOK(i)',
         \A a \in Analyses : analysis'[a] = analysis[a] \/ AnalysisOK(a)',
         \A u \in Range(events)' : sources'[u] # NoRow,
         \A c \in chunks' \ chunks : ChunkOK(c)',
         DocumentsAreWhole'
  PROVE  Catalog'
<1>1. /\ CatalogTypeOK /\ \A c \in chunks : ChunkOK(c)
      /\ \A i \in Ingestors : IngestOK(i)
      /\ \A a \in Analyses : AnalysisOK(a)
  BY DEF Catalog
<1>2. \A c \in chunks' : ChunkOK(c)'
  BY <1>1, ChunkStays
<1>3. \A i \in Ingestors : IngestOK(i)'
  BY <1>1, IngestStays
<1>4. \A a \in Analyses : AnalysisOK(a)'
  BY <1>1, AnalysisStays
<1> QED
  BY <1>2, <1>3, <1>4 DEF Catalog

(* The same where no chunk comes or goes.                                   *)
LEMMA RowsStep ==
  ASSUME Catalog, CatalogTypeOK', RowsStay, UNCHANGED <<setting, chunks, written, cited>>,
         \A i \in Ingestors : ingest'[i] = ingest[i] \/ IngestOK(i)',
         \A a \in Analyses : analysis'[a] = analysis[a] \/ AnalysisOK(a)',
         \A u \in Range(events)' : sources'[u] # NoRow
  PROVE  Catalog'
<1>1. Grows
  BY DEF Grows, ChunksAt, Catalog, CatalogTypeOK
<1>2. DocumentsAreWhole'
  BY DEF Catalog, DocumentsAreWhole, ChunksAt
<1> QED
  BY <1>1, <1>2, CatalogStep

(* And where the rows stay as they are, too, and one process moves.         *)
LEMMA IngestorStep ==
  ASSUME Catalog, NEW i \in Ingestors, NEW h \in Hands, ingest' = [ingest EXCEPT ![i] = h],
         UNCHANGED <<setting, version, events, sources, chunks, cited, written, analysis>>,
         IngestOK(i)'
  PROVE  Catalog'
<1>1. CatalogTypeOK'
  BY DEF Catalog, CatalogTypeOK
<1>2. RowsStay /\ \A u \in Range(events)' : sources'[u] # NoRow
  BY DEF RowsStay, Catalog, Range
<1>3. \A j \in Ingestors : j # i => ingest'[j] = ingest[j]
  BY DEF Catalog, CatalogTypeOK
<1> QED
  BY <1>1, <1>2, <1>3, RowsStep

(* The same for an analysis.                                                *)
LEMMA AnalysisStep ==
  ASSUME Catalog, NEW a \in Analyses, NEW x \in Asked, analysis' = [analysis EXCEPT ![a] = x],
         UNCHANGED <<setting, version, events, sources, chunks, cited, written, ingest>>,
         AnalysisOK(a)'
  PROVE  Catalog'
<1>1. CatalogTypeOK'
  BY DEF Catalog, CatalogTypeOK
<1>2. RowsStay /\ \A u \in Range(events)' : sources'[u] # NoRow
  BY DEF RowsStay, Catalog, Range
<1>3. \A b \in Analyses : b # a => analysis'[b] = analysis[b]
  BY DEF Catalog, CatalogTypeOK
<1> QED
  BY <1>1, <1>2, <1>3, RowsStep

-----------------------------------------------------------------------------
(* The documents of a scene.                                                *)
LEMMA SceneTypes ==
  ASSUME setting \in Scenes
  PROVE  /\ DOMAIN setting.lands \subseteq Attachments
         /\ \A u \in DOMAIN setting.lands : /\ setting.lands[u] \in Uris
                                            /\ setting.media[u] \in {"text", "audio", "visual"}
                                            /\ setting.media[u] = "audio" <=> setting.lands[u] \in AudioUris
         /\ setting.lengths \in Seq(Nat) /\ Len(setting.lengths) \in Nat \ {0}
         /\ setting.ingestors \subseteq Ingestors /\ setting.analyses \subseteq Analyses
         /\ Attachments \subseteq Uris /\ Bars \in Uris /\ Pages \subseteq Uris
<1>1. /\ DOMAIN setting.lands \subseteq Attachments /\ Range(setting.lands) \subseteq Uris
      /\ setting.media \in [DOMAIN setting.lands -> {"text", "audio", "visual"}]
      /\ setting.ingestors \subseteq Ingestors /\ setting.analyses \subseteq Analyses
      /\ \A u, v \in DOMAIN setting.lands : setting.lands[u] = setting.lands[v] => setting.media[u] = setting.media[v]
      /\ setting.lengths \in Seq(Nat) \ {<<>>}
      /\ Attachments \subseteq Uris /\ Bars \in Uris /\ Pages \subseteq Uris
  BY CatalogAssumption
<1>2. \A u \in DOMAIN setting.lands : /\ setting.lands[u] \in Uris
                                      /\ setting.media[u] \in {"text", "audio", "visual"}
                                      /\ setting.media[u] = "audio" <=> setting.lands[u] \in AudioUris
  BY <1>1 DEF Range, AudioUris
<1>3. setting.lengths \in Seq(Nat) /\ Len(setting.lengths) \in Nat \ {0}
  BY <1>1
<1> QED
  BY <1>1, <1>2, <1>3

(* Rows that are stored where there was none leave the others.              *)
LEMMA StoredRows ==
  ASSUME CatalogTypeOK, NEW new, sources' = Stored(sources, new),
         \A u \in Uris : new[u] = NoRow \/ (new[u] \in Row /\ new[u].type # "none")
  PROVE  /\ RowsStay
         /\ sources' \in [Uris -> Row] /\ \A u \in Uris : sources'[u].type = "none" => sources'[u] = NoRow
         /\ \A u \in Uris : sources'[u] = IF sources[u] = NoRow THEN new[u] ELSE sources[u]
<1>1. \A u \in Uris : sources'[u] = IF sources[u] = NoRow THEN new[u] ELSE sources[u]
  BY DEF Stored
<1>2. NoRow \in Row
  BY DEF NoRow, Row
<1>3. sources' \in [Uris -> Row]
  <2>1. \A u \in Uris : (IF sources[u] = NoRow THEN new[u] ELSE sources[u]) \in Row
    BY <1>2 DEF CatalogTypeOK
  <2> QED
    BY <2>1 DEF Stored
<1>4. \A u \in Uris : sources'[u].type = "none" => sources'[u] = NoRow
  BY <1>1 DEF CatalogTypeOK
<1> QED
  BY <1>1, <1>3, <1>4 DEF RowsStay

(* A disclosure gets a row if its URI has none.                             *)
LEMMA DiscloseStep ==
  ASSUME Catalog, NEW u \in DOMAIN setting.lands, Disclose(u)
  PROVE  Catalog'
<1>1. CatalogTypeOK /\ u \in Attachments /\ u \in Uris
  BY SceneTypes DEF Catalog, CatalogTypeOK
<1> DEFINE new == [v \in Uris |-> IF v = u THEN SourceRow("exchange_filing", 0) ELSE NoRow]
<1>2. \A v \in Uris : new[v] = NoRow \/ (new[v] \in Row /\ new[v].type # "none")
  BY DEF SourceRow, Row, RowTypes
<1>3. new[u] # NoRow
  BY <1>1 DEF SourceRow, NoRow
<1>4. sources' = Stored(sources, new)
  BY DEF Disclose
<1> HIDE DEF new
<1>5. /\ RowsStay
      /\ sources' \in [Uris -> Row] /\ \A v \in Uris : sources'[v].type = "none" => sources'[v] = NoRow
      /\ \A v \in Uris : sources'[v] = IF sources[v] = NoRow THEN new[v] ELSE sources[v]
  BY <1>1, <1>2, <1>4, StoredRows
<1>6. events' \in Seq(Attachments) /\ events' = Append(events, u) /\ events \in Seq(Attachments)
  BY <1>1 DEF Disclose, CatalogTypeOK
<1>7. CatalogTypeOK'
  BY <1>1, <1>5, <1>6 DEF CatalogTypeOK, Disclose
<1>8. \A v \in Range(events)' : sources'[v] # NoRow
  <2>1. ASSUME NEW v \in Range(events)' PROVE v = u \/ v \in Range(events)
    BY <1>6, <2>1 DEF Range
  <2>2. \A v \in Range(events) : v \in Uris /\ sources[v] # NoRow
    BY <1>6, CatalogAssumption DEF Catalog, Range
  <2> QED
    BY <1>1, <1>3, <1>5, <2>1, <2>2
<1> QED
  BY <1>5, <1>7, <1>8, RowsStep DEF Disclose

(* A document is revised.                                                   *)
LEMMA ReviseStep ==
  ASSUME Catalog, NEW u \in DOMAIN setting.lands, Revise(u)
  PROVE  Catalog'
<1>1. CatalogTypeOK /\ u \in Attachments
  BY SceneTypes DEF Catalog, CatalogTypeOK
<1>2. CatalogTypeOK'
  <2>1. version[u] \in Nat /\ version[u] \in 1..Len(setting.lengths) /\ Len(setting.lengths) \in Nat
    BY <1>1, SceneTypes DEF CatalogTypeOK
  <2>2. version' = [version EXCEPT ![u] = version[u] + 1] /\ version[u] + 1 \in 1..Len(setting.lengths)
    BY <2>1 DEF Revise
  <2> QED
    BY <1>1, <2>1, <2>2 DEF CatalogTypeOK, Revise
<1>3. RowsStay /\ \A v \in Range(events)' : sources'[v] # NoRow
  BY DEF RowsStay, Catalog, Range, Revise
<1> QED
  BY <1>2, <1>3, RowsStep DEF Revise

(* A page that ages keeps its type.                                         *)
LEMMA PageAgesStep ==
  ASSUME Catalog, NEW u \in Uris, PageAges(u)
  PROVE  Catalog'
<1>1. CatalogTypeOK /\ sources \in [Uris -> Row] /\ sources[u] # NoRow /\ sources[u].type = "web_search"
  BY DEF Catalog, CatalogTypeOK, PageAges, CachedPages, HasRow
<1>2. /\ sources' = [sources EXCEPT ![u] = [sources[u] EXCEPT !.recent = FALSE]]
      /\ [sources[u] EXCEPT !.recent = FALSE] \in Row
      /\ [sources[u] EXCEPT !.recent = FALSE].type = "web_search"
      /\ [sources[u] EXCEPT !.recent = FALSE].checksum = sources[u].checksum
      /\ [sources[u] EXCEPT !.recent = FALSE] # NoRow
  BY <1>1 DEF PageAges, Row, NoRow
<1>3. RowsStay
  BY <1>1, <1>2 DEF RowsStay
<1>4. CatalogTypeOK'
  BY <1>1, <1>2 DEF CatalogTypeOK, PageAges
<1>5. \A v \in Range(events)' : sources'[v] # NoRow
  BY <1>1, <1>2 DEF Catalog, PageAges, Range
<1> QED
  BY <1>3, <1>4, <1>5, RowsStep DEF PageAges

-----------------------------------------------------------------------------
(* The steps of an ingestor.                                                *)
LEMMA RestingType == Resting \in Hands /\ Resting.pc = "idle"
BY CatalogAssumption DEF Resting, Hands

(* It puts its work down.                                                   *)
LEMMA RestStep ==
  ASSUME Catalog, NEW i \in Ingestors, ingest' = [ingest EXCEPT ![i] = Resting],
         UNCHANGED <<setting, version, events, sources, chunks, cited, written, analysis>>
  PROVE  Catalog'
<1>1. ingest'[i] = Resting
  BY DEF Catalog, CatalogTypeOK
<1>2. IngestOK(i)'
  BY <1>1, RestingType DEF IngestOK
<1> QED
  BY <1>2, RestingType, IngestorStep

(* It takes a document of a disclosed event.                                *)
LEMMA FetchStep ==
  ASSUME Catalog, NEW i \in Ingestors, NEW u \in DOMAIN setting.lands, FetchDocument(i, u)
  PROVE  Catalog'
<1> DEFINE h == [Resting EXCEPT !.pc = "source", !.event = u, !.version = version[u]]
<1>1. CatalogTypeOK /\ u \in Attachments /\ u \in Uris /\ version[u] \in Nat
      /\ version[u] \in 1..Len(setting.lengths) /\ ingest \in [Ingestors -> Hands]
  BY SceneTypes DEF Catalog, CatalogTypeOK
<1>2. h \in Hands /\ h.pc = "source" /\ h.event = u /\ h.version = version[u]
  BY <1>1, RestingType DEF Hands
<1>3. ingest' = [ingest EXCEPT ![i] = h] /\ UNCHANGED setting
  BY DEF FetchDocument
<1> HIDE DEF h
<1>4. ingest'[i] = h
  BY <1>1, <1>3
<1>5. IngestOK(i)'
  BY <1>1, <1>2, <1>3, <1>4 DEF IngestOK
<1> QED
  BY <1>2, <1>3, <1>5, IngestorStep DEF FetchDocument

(* Where an ingestor is at work.                                            *)
LEMMA AtWork ==
  ASSUME Catalog, NEW i \in Ingestors, ingest[i].pc # "idle"
  PROVE  /\ CatalogTypeOK /\ ingest \in [Ingestors -> Hands] /\ ingest[i] \in Hands
         /\ ingest[i].event \in DOMAIN setting.lands /\ ingest[i].event \in Attachments
         /\ ingest[i].version \in 1..Len(setting.lengths)
         /\ setting.lands[ingest[i].event] \in Uris
         /\ setting.media[ingest[i].event] \in {"text", "audio", "visual"}
         /\ setting.media[ingest[i].event] = "audio" <=> setting.lands[ingest[i].event] \in AudioUris
<1>1. CatalogTypeOK /\ IngestOK(i) /\ setting \in Scenes /\ ingest \in [Ingestors -> Hands]
  BY DEF Catalog, CatalogTypeOK
<1>2. ingest[i].event \in DOMAIN setting.lands /\ ingest[i].version \in 1..Len(setting.lengths)
  BY <1>1 DEF IngestOK
<1> QED
  BY <1>1, <1>2, SceneTypes

(* It sees to a row for the document.                                       *)
LEMMA EnsureSourceStep ==
  ASSUME Catalog, NEW i \in Ingestors, EnsureSource(i)
  PROVE  Catalog'
<1> DEFINE u == setting.lands[ingest[i].event]
           type == IF setting.media[ingest[i].event] = "audio" THEN "earnings_audio" ELSE "exchange_filing"
           old == sources[u]
           row == IF old = NoRow THEN SourceRow(type, ingest[i].version)
                  ELSE [old EXCEPT !.checksum = IF @ = 0 THEN ingest[i].version ELSE @]
           h == [ingest[i] EXCEPT !.pc = "read"]
<1>1. ingest[i].pc = "source"
  BY DEF EnsureSource
<1>2. /\ CatalogTypeOK /\ ingest \in [Ingestors -> Hands] /\ ingest[i] \in Hands
      /\ ingest[i].event \in DOMAIN setting.lands /\ ingest[i].version \in 1..Len(setting.lengths)
      /\ u \in Uris
  BY <1>1, AtWork
<1>3. ingest[i].version \in Nat /\ sources \in [Uris -> Row] /\ old \in Row
      /\ (old.type = "none" => old = NoRow)
  BY <1>2 DEF Hands, CatalogTypeOK
<1>4. type \in RowTypes
  BY DEF RowTypes
<1> HIDE DEF u, type
<1>5. /\ row \in Row /\ row # NoRow /\ row.type # "none"
      /\ old # NoRow => row.type = old.type /\ (old.checksum # 0 => row.checksum = old.checksum)
  <2>1. CASE old = NoRow
    <3>1. row = SourceRow(type, ingest[i].version)
      BY <2>1
    <3> QED
      BY <1>3, <1>4, <2>1, <3>1 DEF SourceRow, Row, RowTypes, NoRow
  <2>2. CASE old # NoRow
    BY <1>3, <2>2 DEF Row, NoRow
  <2> QED
    BY <2>1, <2>2
<1>6. sources' = [sources EXCEPT ![u] = row] /\ ingest' = [ingest EXCEPT ![i] = h]
      /\ UNCHANGED <<setting, version, events, chunks, cited, written, analysis>>
  BY DEF EnsureSource, u, type
<1>7. h \in Hands /\ h.pc = "read" /\ h.event = ingest[i].event /\ h.version = ingest[i].version
  BY <1>2 DEF Hands
<1> HIDE DEF row, h
<1>8. RowsStay /\ sources'[u] # NoRow /\ \A v \in Uris : sources[v] # NoRow => sources'[v] # NoRow
  BY <1>2, <1>3, <1>5, <1>6 DEF RowsStay, old
<1>9. CatalogTypeOK'
  BY <1>2, <1>3, <1>5, <1>6, <1>7 DEF CatalogTypeOK
<1>10. ingest'[i] = h /\ \A j \in Ingestors : j # i => ingest'[j] = ingest[j]
  BY <1>2, <1>6
<1>11. IngestOK(i)'
  <2>1. setting'.lands[h.event] = u
    BY <1>6, <1>7 DEF u
  <2> QED
    BY <1>2, <1>6, <1>7, <1>8, <1>10, <2>1 DEF IngestOK
<1>12. \A v \in Range(events)' : sources'[v] # NoRow
  <2>1. Range(events)' = Range(events) /\ Range(events) \subseteq Uris
    BY <1>2, <1>6, CatalogAssumption DEF Range, CatalogTypeOK
  <2> QED
    BY <1>8, <2>1 DEF Catalog
<1> QED
  BY <1>6, <1>8, <1>9, <1>10, <1>11, <1>12, RowsStep

(* It cannot read the document.                                             *)
LEMMA ReadFailsStep ==
  ASSUME Catalog, NEW i \in Ingestors, ReadFails(i)
  PROVE  Catalog'
<1>1. ingest[i].pc = "read" /\ UNCHANGED <<setting, version, events, sources, chunks, cited, written, analysis>>
  BY DEF ReadFails
<1>2. /\ CatalogTypeOK /\ ingest \in [Ingestors -> Hands] /\ ingest[i] \in Hands
      /\ ingest[i].event \in DOMAIN setting.lands /\ ingest[i].version \in 1..Len(setting.lengths)
  BY <1>1, AtWork
<1>3. ASSUME NEW s \in {"failed", "unsupported"},
             ingest' = [ingest EXCEPT ![i].pc = "link", ![i].status = s]
      PROVE  Catalog'
  <2> DEFINE h == [ingest[i] EXCEPT !.pc = "link", !.status = s]
  <2>1. h \in Hands /\ h.pc = "link" /\ h.event = ingest[i].event /\ h.version = ingest[i].version
    BY <1>2 DEF Hands
  <2>2. ingest' = [ingest EXCEPT ![i] = h]
    BY <1>2, <1>3 DEF Hands
  <2> HIDE DEF h
  <2>3. ingest'[i] = h
    BY <1>2, <2>2
  <2>4. IngestOK(i)'
    BY <1>1, <1>2, <2>1, <2>3 DEF IngestOK
  <2> QED
    BY <1>1, <2>1, <2>2, <2>4, IngestorStep
<1>4. CASE ingest' = [ingest EXCEPT ![i] = Resting]
  BY <1>1, <1>4, RestStep
<1> QED
  BY <1>3, <1>4 DEF ReadFails

(* It deletes the chunks it sees.                                           *)
LEMMA DeleteChunksStep ==
  ASSUME Catalog, NEW i \in Ingestors, DeleteChunks(i)
  PROVE  Catalog'
<1> DEFINE u == setting.lands[ingest[i].event]
           h == [ingest[i] EXCEPT !.pc = "insert", !.doomed = ChunksAt(u)]
<1>1. ingest[i].pc = "read" /\ UNCHANGED <<setting, version, events, sources, chunks, cited, written, analysis>>
  BY DEF DeleteChunks
<1>2. /\ CatalogTypeOK /\ ingest \in [Ingestors -> Hands] /\ ingest[i] \in Hands
      /\ ingest[i].event \in DOMAIN setting.lands /\ ingest[i].version \in 1..Len(setting.lengths)
      /\ sources[u] # NoRow
  BY <1>1, AtWork DEF Catalog, IngestOK
<1>3. ChunksAt(u) \subseteq Chunk /\ \A c \in ChunksAt(u) : c.uri = u /\ Given(c.id)
  BY DEF Catalog, CatalogTypeOK, ChunkOK, ChunksAt
<1>4. /\ h \in Hands /\ h.pc = "insert" /\ h.event = ingest[i].event /\ h.version = ingest[i].version
      /\ h.doomed = ChunksAt(u)
  BY <1>2, <1>3 DEF Hands
<1>5. ingest' = [ingest EXCEPT ![i] = h]
  BY <1>2 DEF Hands, DeleteChunks
<1> HIDE DEF h
<1>6. ingest'[i] = h
  BY <1>2, <1>5
<1>7. IngestOK(i)'
  BY <1>1, <1>2, <1>3, <1>4, <1>6 DEF IngestOK, ChunksAt, Given
<1> QED
  BY <1>1, <1>4, <1>5, <1>7, IngestorStep

(* It links the event, or is killed.                                        *)
LEMMA LinkEventStep ==
  ASSUME Catalog, NEW i \in Ingestors, LinkEvent(i) \/ KillIngestor(i)
  PROVE  Catalog'
BY RestStep DEF LinkEvent, KillIngestor

(* The chunks of one reading are a batch, numbered from zero, and of the    *)
(* kind that goes with its URL.                                             *)
LEMMA NewChunksAre ==
  ASSUME Catalog, NEW i \in Ingestors, ingest[i].pc = "insert",
         NEW embedded \in BOOLEAN, NEW seen \in BOOLEAN
  PROVE  LET new == NewChunks(i, embedded, seen)
             u == setting.lands[ingest[i].event] IN
         /\ new \subseteq Chunk
         /\ \A c \in new : /\ c.uri = u /\ BatchOf(c) = <<i, written[i] + 1>>
                           /\ c.id[1] = i /\ c.id[2] = written[i] + 1
                           /\ c.section # "reference"
                           /\ c.section = "earnings_transcript" <=> u \in AudioUris
                           /\ \A k \in 0..(c.index - 1) : \E d \in new : d.index = k
         /\ new # {} => \E d \in new : d.index = 0
<1> DEFINE e == ingest[i].event
           u == setting.lands[e]
           n == setting.lengths[ingest[i].version]
           section == IF setting.media[e] = "audio" THEN "earnings_transcript" ELSE "text"
           C(k, s, b) == [uri |-> u, id |-> <<i, written[i] + 1, k>>, index |-> k, section |-> s, embedded |-> b]
           body == {C(k, section, embedded) : k \in 0..(n - 1)}
           looks == IF setting.media[e] = "visual" /\ seen THEN {C(n, "multimodal_extraction", FALSE)} ELSE {}
           new == body \cup looks
<1>1. /\ CatalogTypeOK /\ u \in Uris /\ setting.media[e] \in {"text", "audio", "visual"}
      /\ setting.media[e] = "audio" <=> u \in AudioUris
      /\ ingest[i].version \in 1..Len(setting.lengths)
  BY AtWork
<1>2. n \in Nat /\ written[i] + 1 \in Nat
  <2>1. setting.lengths \in Seq(Nat) /\ written \in [Ingestors -> Nat]
    BY <1>1, SceneTypes DEF CatalogTypeOK
  <2> QED
    BY <1>1, <2>1
<1>3. NewChunks(i, embedded, seen) = new
  BY DEF NewChunks
<1>4. ASSUME NEW k \in Nat, NEW s \in Sections, NEW b \in BOOLEAN
      PROVE  /\ C(k, s, b) \in Chunk /\ C(k, s, b).uri = u /\ C(k, s, b).index = k /\ C(k, s, b).section = s
             /\ C(k, s, b).id[1] = i /\ C(k, s, b).id[2] = written[i] + 1
             /\ BatchOf(C(k, s, b)) = <<i, written[i] + 1>>
  <2>1. <<i, written[i] + 1, k>> \in Ids
    BY <1>2 DEF Ids
  <2> QED
    BY <1>1, <2>1 DEF Chunk, BatchOf
<1> HIDE DEF u, n, e, C
<1>5. section \in Sections \ {"reference"} /\ (section = "earnings_transcript" <=> u \in AudioUris)
  BY <1>1 DEF Sections
<1> HIDE DEF section
<1>6. \A k \in 0..(n - 1) : C(k, section, embedded) \in new /\ C(k, section, embedded).index = k
  <2> SUFFICES ASSUME NEW k \in 0..(n - 1)
               PROVE  C(k, section, embedded) \in body /\ C(k, section, embedded).index = k
    OBVIOUS
  <2>1. C(k, section, embedded) \in body
    OBVIOUS
  <2>2. k \in Nat /\ section \in Sections
    BY <1>2, <1>5
  <2>3. C(k, section, embedded).index = k
    BY <1>4, <2>2
  <2> QED
    BY <2>1, <2>3
<1>7. ASSUME NEW c \in new
      PROVE  /\ c \in Chunk /\ c.uri = u /\ BatchOf(c) = <<i, written[i] + 1>>
             /\ c.id[1] = i /\ c.id[2] = written[i] + 1
             /\ c.section # "reference"
             /\ c.section = "earnings_transcript" <=> u \in AudioUris
             /\ c.index \in 0..n
  <2>1. ASSUME NEW k \in 0..n, NEW s \in Sections, NEW b \in BOOLEAN, c = C(k, s, b),
               s # "reference", s = "earnings_transcript" <=> u \in AudioUris
        PROVE  /\ c \in Chunk /\ c.uri = u /\ BatchOf(c) = <<i, written[i] + 1>>
               /\ c.id[1] = i /\ c.id[2] = written[i] + 1
               /\ c.section # "reference"
               /\ c.section = "earnings_transcript" <=> u \in AudioUris
               /\ c.index \in 0..n
    <3>1. k \in Nat
      BY <1>2
    <3>2. /\ c \in Chunk /\ c.uri = u /\ c.index = k /\ c.section = s
          /\ c.id[1] = i /\ c.id[2] = written[i] + 1 /\ BatchOf(c) = <<i, written[i] + 1>>
      BY <1>4, <2>1, <3>1
    <3> QED
      BY <2>1, <3>2
  <2>2. CASE c \in body
    <3>1. PICK k \in 0..(n - 1) : c = C(k, section, embedded)
      BY <2>2
    <3>2. k \in 0..n
      BY <1>2
    <3> QED
      BY <1>5, <2>1, <3>1, <3>2
  <2>3. CASE c \in looks
    <3>1. c = C(n, "multimodal_extraction", FALSE) /\ setting.media[e] = "visual"
      BY <2>3
    <3>2. "multimodal_extraction" \in Sections /\ n \in 0..n
      BY <1>2 DEF Sections
    <3> QED
      BY <1>1, <2>1, <3>1, <3>2
  <2> QED
    BY <2>2, <2>3
<1>8. ASSUME NEW c \in new, NEW k \in 0..(c.index - 1) PROVE \E d \in new : d.index = k
  <2>1. c.index \in 0..n
    BY <1>7
  <2>2. k \in 0..(n - 1)
    BY <1>2, <2>1
  <2> QED
    BY <1>6, <2>2
<1>9. ASSUME new # {} PROVE \E d \in new : d.index = 0
  <2>1. PICK c \in new : c.index \in 0..n
    BY <1>7, <1>9
  <2>2. CASE c.index = 0
    BY <2>2
  <2>3. CASE c.index # 0
    <3>1. 0 \in 0..(c.index - 1)
      BY <1>2, <2>1, <2>3
    <3> QED
      BY <1>8, <3>1
  <2> QED
    BY <2>2, <2>3
<1> HIDE DEF new
<1> QED
  BY <1>3, <1>7, <1>8, <1>9 DEF u, e

(* The chunks an ingestor did not see keep it from storing its own, so what *)
(* it stores replaces all there are at its URL or nothing.                  *)
LEMMA ChunksAreReplaced ==
  ASSUME Catalog, NEW i \in Ingestors, ingest[i].pc = "insert",
         NEW embedded \in BOOLEAN, NEW seen \in BOOLEAN,
         LET new == NewChunks(i, embedded, seen)
             doomed == ingest[i].doomed
             left == ChunksAt(setting.lands[ingest[i].event]) \ doomed
         IN ~Clash(left, new) /\ chunks' = (chunks \ doomed) \cup new
  PROVE  LET new == NewChunks(i, embedded, seen)
             u == setting.lands[ingest[i].event] IN
         /\ \A v : v # u => {c \in chunks' : c.uri = v} = ChunksAt(v)
         /\ \/ {c \in chunks' : c.uri = u} = new /\ new \cap ChunksAt(u) = {}
            \/ {c \in chunks' : c.uri = u} = ChunksAt(u) /\ new = {}
<1> DEFINE new == NewChunks(i, embedded, seen)
           u == setting.lands[ingest[i].event]
           doomed == ingest[i].doomed
           left == ChunksAt(u) \ doomed
<1>1. /\ \A c \in new : c.uri = u /\ c.id[1] = i /\ c.id[2] = written[i] + 1
      /\ new # {} => \E d \in new : d.index = 0
  BY NewChunksAre
<1>2. /\ \A c \in doomed : c.uri = u
      /\ doomed = ChunksAt(u) \/ doomed \cap chunks = {}
  BY DEF Catalog, IngestOK
<1>3. ~Clash(left, new) /\ chunks' = (chunks \ doomed) \cup new
  OBVIOUS
<1> HIDE DEF new, u, doomed
<1>4. \A v : v # u => {c \in chunks' : c.uri = v} = ChunksAt(v)
  BY <1>1, <1>2, <1>3 DEF ChunksAt
<1>5. new \cap ChunksAt(u) = {}
  <2> SUFFICES ASSUME NEW c \in new, c \in chunks PROVE FALSE
    BY DEF ChunksAt
  <2>1. c.id[2] <= written[i]
    BY <1>1 DEF Catalog, ChunkOK, Given
  <2>2. written[i] \in Nat
    BY DEF Catalog, CatalogTypeOK
  <2> QED
    BY <1>1, <2>1, <2>2
<1>6. {c \in chunks' : c.uri = u} = left \cup new
  BY <1>1, <1>3 DEF ChunksAt
<1>7. CASE left = {}
  BY <1>4, <1>5, <1>6, <1>7 DEF new, u
<1>8. CASE left # {}
  <2>1. left = ChunksAt(u)
    BY <1>2, <1>8 DEF ChunksAt
  <2>2. \E c \in left : c.index = 0
    <3>1. PICK c \in left : c \in chunks /\ c.uri = u /\ c.index \in Nat
      BY <1>8 DEF ChunksAt, Catalog, CatalogTypeOK, Chunk
    <3>2. CASE c.index = 0
      BY <3>2
    <3>3. CASE c.index # 0
      <4>1. 0 \in 0..(c.index - 1)
        BY <3>1, <3>3
      <4> QED
        BY <2>1, <3>1, <4>1 DEF Catalog, DocumentsAreWhole
    <3> QED
      BY <3>2, <3>3
  <2>3. new = {}
    BY <1>1, <1>3, <2>2 DEF Clash
  <2> QED
    BY <1>4, <1>6, <2>1, <2>3 DEF new, u
<1> QED
  BY <1>7, <1>8

(* It stores its chunks, or gives up.                                       *)
LEMMA InsertChunksStep ==
  ASSUME Catalog, NEW i \in Ingestors, InsertChunks(i)
  PROVE  Catalog'
<1> DEFINE u == setting.lands[ingest[i].event]
           doomed == ingest[i].doomed
           left == ChunksAt(u) \ doomed
<1>1. /\ ingest[i].pc = "insert"
      /\ UNCHANGED <<setting, version, events, sources, links, analysis, kills>>
  BY DEF InsertChunks
<1>2. PICK embedded \in BOOLEAN, seen \in BOOLEAN :
        LET new == NewChunks(i, embedded, seen) IN
        IF Clash(left, new)
        THEN /\ ingest' = [ingest EXCEPT ![i] = Resting]
             /\ UNCHANGED <<chunks, cited, written>>
        ELSE /\ chunks' = (chunks \ doomed) \cup new
             /\ cited' = {p \in cited : \A c \in doomed : c.id # p[2]}
             /\ written' = [written EXCEPT ![i] = @ + 1]
             /\ ingest' = [ingest EXCEPT ![i].pc = "link", ![i].doomed = {}, ![i].status = "parsed"]
  BY DEF InsertChunks
<1> DEFINE new == NewChunks(i, embedded, seen)
<1>3. /\ CatalogTypeOK /\ ingest \in [Ingestors -> Hands] /\ ingest[i] \in Hands
      /\ ingest[i].event \in DOMAIN setting.lands /\ ingest[i].version \in 1..Len(setting.lengths)
      /\ u \in Uris /\ sources[u] # NoRow
  BY <1>1, AtWork DEF Catalog, IngestOK
<1>4. CASE Clash(left, new)
  BY <1>1, <1>2, <1>4, RestStep
<1>5. CASE ~Clash(left, new)
  <2> DEFINE h == [ingest[i] EXCEPT !.pc = "link", !.doomed = {}, !.status = "parsed"]
  <2>1. /\ chunks' = (chunks \ doomed) \cup new
        /\ cited' = {p \in cited : \A c \in doomed : c.id # p[2]}
        /\ written' = [written EXCEPT ![i] = written[i] + 1]
        /\ ingest' = [ingest EXCEPT ![i] = h]
    BY <1>2, <1>3, <1>5 DEF Hands
  <2>2. /\ h \in Hands /\ h.pc = "link" /\ h.event = ingest[i].event /\ h.version = ingest[i].version
    BY <1>3 DEF Hands
  <2>3. /\ new \subseteq Chunk
        /\ \A c \in new : /\ c.uri = u /\ BatchOf(c) = <<i, written[i] + 1>>
                          /\ c.id[1] = i /\ c.id[2] = written[i] + 1
                          /\ c.section # "reference"
                          /\ c.section = "earnings_transcript" <=> u \in AudioUris
                          /\ \A k \in 0..(c.index - 1) : \E d \in new : d.index = k
    BY <1>1, NewChunksAre
  <2>4. /\ \A v : v # u => {c \in chunks' : c.uri = v} = ChunksAt(v)
        /\ \/ {c \in chunks' : c.uri = u} = new /\ new \cap ChunksAt(u) = {}
           \/ {c \in chunks' : c.uri = u} = ChunksAt(u) /\ new = {}
    BY <1>1, <1>5, <2>1, ChunksAreReplaced
  <2> HIDE DEF h, new, u, doomed
  <2>5. written[i] \in Nat /\ written' \in [Ingestors -> Nat]
        /\ \A j \in Ingestors : written[j] <= written'[j] /\ written'[i] = written[i] + 1
    BY <1>3, <2>1 DEF CatalogTypeOK
  <2>6. ingest'[i] = h /\ ingest' \in [Ingestors -> Hands] /\ \A j \in Ingestors : j # i => ingest'[j] = ingest[j]
    BY <1>3, <2>1, <2>2
  <2>7. CatalogTypeOK'
    BY <1>1, <1>3, <2>1, <2>3, <2>5, <2>6 DEF CatalogTypeOK
  <2>8. Grows
    <3>1. \A v : ChunksAt(v)' = {c \in chunks' : c.uri = v}
      BY DEF ChunksAt
    <3>2. \A v \in Uris : ChunksAt(v)' = ChunksAt(v) \/ ChunksAt(v)' \cap ChunksAt(v) = {}
      BY <2>4, <3>1
    <3>3. \A c \in chunks' \ chunks : c.id[1] \in Ingestors /\ c.id[2] > written[c.id[1]]
      BY <2>1, <2>3, <2>5
    <3> QED
      BY <1>1, <2>5, <3>2, <3>3 DEF Grows, RowsStay
  <2>9. IngestOK(i)'
    BY <1>1, <1>3, <2>2, <2>6 DEF IngestOK
  <2>10. \A c \in chunks' \ chunks : ChunkOK(c)'
    <3> SUFFICES ASSUME NEW c \in new PROVE ChunkOK(c)'
      BY <2>1
    <3>1. sources'[c.uri] # NoRow /\ AudioUris' = AudioUris
      BY <1>1, <1>3, <2>3 DEF AudioUris
    <3>2. Given(c.id)'
      BY <2>3, <2>5 DEF Given
    <3>3. ASSUME NEW d \in chunks', d.id = c.id PROVE d.uri = c.uri
      <4>1. \A b \in chunks : b.id[1] = i => b.id[2] <= written[i]
        BY DEF Catalog, ChunkOK, Given
      <4> QED
        BY <2>1, <2>3, <2>5, <3>3, <4>1
    <3> QED
      BY <2>3, <3>1, <3>2, <3>3 DEF ChunkOK
  <2>11. DocumentsAreWhole'
    <3>1. DocumentsAreWhole
      BY DEF Catalog
    <3>2. ASSUME NEW c \in chunks', NEW d \in chunks', c.uri = d.uri PROVE BatchOf(c) = BatchOf(d)
      <4>1. (c \in chunks /\ d \in chunks) \/ (c \in new /\ d \in new)
        BY <2>4, <3>2 DEF ChunksAt
      <4> QED
        BY <2>3, <3>1, <3>2, <4>1 DEF DocumentsAreWhole
    <3>3. ASSUME NEW c \in chunks', NEW k \in 0..(c.index - 1) PROVE \E d \in chunks' : d.uri = c.uri /\ d.index = k
      <4>1. CASE c.uri = u /\ {x \in chunks' : x.uri = u} = new
        BY <2>3, <3>3, <4>1
      <4>2. CASE {x \in chunks' : x.uri = c.uri} = ChunksAt(c.uri)
        <5>1. c \in chunks
          BY <4>2 DEF ChunksAt
        <5>2. \E d \in ChunksAt(c.uri) : d.index = k
          BY <3>1, <5>1 DEF DocumentsAreWhole
        <5> QED
          BY <4>2, <5>2
      <4> QED
        BY <2>4, <4>1, <4>2
    <3>4. ASSUME NEW p \in cited' PROVE \E c \in chunks' : c.id = p[2]
      BY <2>1, <3>1 DEF DocumentsAreWhole
    <3> QED
      BY <3>2, <3>3, <3>4 DEF DocumentsAreWhole, ChunksAt
  <2>12. \A v \in Range(events)' : sources'[v] # NoRow
    BY <1>1 DEF Catalog, Range
  <2> QED
    BY <1>1, <2>6, <2>7, <2>8, <2>9, <2>10, <2>11, <2>12, CatalogStep
<1> QED
  BY <1>4, <1>5

-----------------------------------------------------------------------------
(* The steps of an analysis.                                                *)
LEMMA AskedTypes ==
  ASSUME Catalog, NEW a \in Analyses
  PROVE  /\ CatalogTypeOK /\ analysis \in [Analyses -> Asked] /\ analysis[a] \in Asked /\ AnalysisOK(a)
         /\ analysis[a].base \subseteq Reference /\ analysis[a].recent \subseteq Reference
         /\ analysis[a].refs \subseteq Reference /\ analysis[a].cached \subseteq Uris
BY DEF Catalog, CatalogTypeOK, Asked

(* A reference an analysis makes itself.                                    *)
LEMMA FreshRefs ==
  ASSUME NEW a \in Analyses, NEW u \in Uris, NEW t \in RefTypes, NEW k \in Nat, NEW p \in 1..4
  PROVE  LET r == FreshRef(a, t, u, k, p) IN
         /\ r \in Reference /\ r.type = t /\ r.uri = u /\ r.checksum = k /\ r.page = -1
         /\ r.section = "reference" /\ r.id[1] = a /\ Given(r.id) /\ Given(r.id)'
<1>1. <<a, u, t>> \in Ids /\ "reference" \in Sections
  BY DEF Ids, Sections
<1>2. Given(<<a, u, t>>) /\ Given(<<a, u, t>>)'
  BY CatalogAssumption DEF Given
<1> QED
  BY <1>1, <1>2 DEF FreshRef, Ref, Reference

(* It refers to the events and the price history.                           *)
LEMMA LoadContextStep ==
  ASSUME Catalog, NEW a \in Analyses, LoadContext(a)
  PROVE  Catalog'
<1> DEFINE base == {EventRef(a, u) : u \in LatestEvents} \cup {FreshRef(a, "market_data", Bars, 0, 2)}
           x == [analysis[a] EXCEPT !.pc = "filings", !.base = base]
<1>1. /\ CatalogTypeOK /\ analysis \in [Analyses -> Asked] /\ analysis[a] \in Asked /\ AnalysisOK(a)
      /\ UNCHANGED <<setting, version, events, sources, chunks, cited, written, ingest>>
  BY AskedTypes DEF LoadContext
<1>2. ASSUME NEW r \in base PROVE r \in Reference /\ RefOK(r) /\ BaseOK(r)
  <2>1. CASE r = FreshRef(a, "market_data", Bars, 0, 2)
    <3>1. /\ r \in Reference /\ r.type = "market_data" /\ r.page = -1
          /\ r.section = "reference" /\ r.id[1] = a /\ Given(r.id)
      BY <2>1, FreshRefs, CatalogAssumption DEF RefTypes, RowTypes
    <3> QED
      BY <3>1 DEF RefOK, BaseOK, Contextual
  <2>2. ASSUME NEW u \in LatestEvents, r = EventRef(a, u) PROVE r \in Reference /\ RefOK(r) /\ BaseOK(r)
    <3>1. u \in Range(events) /\ u \in Uris
      BY <1>1, CatalogAssumption DEF LatestEvents, Range, CatalogTypeOK
    <3>2. sources[u] # NoRow /\ sources[u] \in Row /\ sources[u].type # "none"
      BY <1>1, <3>1 DEF Catalog, CatalogTypeOK
    <3>3. sources[u].type \in RefTypes /\ sources[u].checksum \in Nat
      BY <3>2 DEF Row, RefTypes
    <3>4. \E p \in 1..4 : r = FreshRef(a, sources[u].type, u, sources[u].checksum, p)
      BY <2>2 DEF EventRef
    <3>5. /\ r \in Reference /\ r.type = sources[u].type /\ r.uri = u /\ r.page = -1
          /\ r.checksum = sources[u].checksum
          /\ r.section = "reference" /\ r.id[1] = a /\ Given(r.id)
      BY <3>1, <3>3, <3>4, FreshRefs
    <3> QED
      BY <3>2, <3>5 DEF RefOK, BaseOK
  <2> QED
    BY <2>1, <2>2
<1> HIDE DEF base
<1>3. /\ x \in Asked /\ x.pc = "filings" /\ x.base = base
      /\ x.recent = analysis[a].recent /\ x.refs = analysis[a].refs
  BY <1>1, <1>2 DEF Asked
<1>4. analysis' = [analysis EXCEPT ![a] = x]
  BY <1>1 DEF LoadContext, base, Asked
<1> HIDE DEF x
<1>5. analysis'[a] = x
  BY <1>1, <1>4
<1>6. AnalysisOK(a)'
  BY <1>1, <1>2, <1>3, <1>5 DEF AnalysisOK, RefOK, BaseOK, RecentOK, Given, AudioUris
<1> QED
  BY <1>1, <1>3, <1>4, <1>6, AnalysisStep

(* What a reference to a chunk says of it.                                  *)
LEMMA ChunkFacts ==
  ASSUME Catalog, NEW c \in chunks
  PROVE  /\ c \in Chunk /\ ChunkOK(c) /\ sources[c.uri] # NoRow
         /\ sources[c.uri].type \in RowTypes /\ sources[c.uri].checksum \in Nat
         /\ PageOf(c) \in Int /\ (c.section = "earnings_transcript" => PageOf(c) = -1)
         /\ c.section # "reference" =>
              /\ c.id[1] \in Ingestors
              /\ \A d \in chunks : d.id = c.id => d.uri = c.uri
<1>1. c \in Chunk /\ ChunkOK(c) /\ sources[c.uri] # NoRow /\ c.uri \in Uris /\ c.index \in Nat
  BY DEF Catalog, CatalogTypeOK, ChunkOK, Chunk
<1>2. sources[c.uri] \in Row /\ sources[c.uri].type # "none"
  BY <1>1 DEF Catalog, CatalogTypeOK
<1>3. sources[c.uri].type \in RowTypes /\ sources[c.uri].checksum \in Nat
  BY <1>2 DEF Row
<1>4. PageOf(c) \in Int /\ (c.section = "earnings_transcript" => PageOf(c) = -1)
  BY <1>1 DEF PageOf
<1> QED
  BY <1>1, <1>3, <1>4 DEF ChunkOK

(* A reference that names a chunk on file, whoever reads it.                *)
LEMMA ChunkRefs ==
  ASSUME Catalog, NEW c \in chunks, NEW t \in RefTypes, NEW p \in 1..4,
         c.section = "earnings_transcript" /\ p = 1 => t = "exchange_filing"
  PROVE  LET r == Ref(c.id, t, c.uri, PageOf(c), sources[c.uri].checksum, p, c.section)
         IN r \in Reference /\ RefOK(r)
<1>1. /\ c \in Chunk /\ ChunkOK(c) /\ sources[c.uri] # NoRow /\ sources[c.uri].checksum \in Nat
      /\ PageOf(c) \in Int
      /\ c.section # "reference" =>
           /\ c.id[1] \in Ingestors
           /\ \A d \in chunks : d.id = c.id => d.uri = c.uri
  BY ChunkFacts
<1>2. Given(c.id)
  BY <1>1 DEF ChunkOK
<1> QED
  BY <1>1, <1>2 DEF Ref, Reference, RefOK, Chunk

(* It reads chunks of the events' documents.                                *)
LEMMA ReadFilingsStep ==
  ASSUME Catalog, NEW a \in Analyses, ReadFilings(a)
  PROVE  Catalog'
<1>1. /\ CatalogTypeOK /\ analysis \in [Analyses -> Asked] /\ analysis[a] \in Asked /\ AnalysisOK(a)
      /\ UNCHANGED <<setting, version, events, sources, chunks, cited, written, ingest>>
  BY AskedTypes DEF ReadFilings
<1>2. PICK C \in SUBSET chunks :
        analysis' = [analysis EXCEPT ![a].pc = "semantic", ![a].recent = {FilingRef(c) : c \in C}]
  <2> DEFINE linked == {c \in chunks : \E u \in DOMAIN setting.lands : links[u] = "parsed" /\ setting.lands[u] = c.uri}
             first == {c \in linked : \A d \in ChunksAt(c.uri) : PageOf(d) = PageOf(c) => c.index <= d.index}
  <2>1. first \in SUBSET chunks
    OBVIOUS
  <2>2. analysis' = [analysis EXCEPT ![a].pc = "semantic", ![a].recent = {FilingRef(c) : c \in first}]
    BY DEF ReadFilings
  <2> QED
    BY <2>1, <2>2
<1> DEFINE recent == {FilingRef(c) : c \in C}
           x == [analysis[a] EXCEPT !.pc = "semantic", !.recent = recent]
<1>3. ASSUME NEW r \in recent PROVE r \in Reference /\ RefOK(r) /\ RecentOK(r)
  <2>1. PICK c \in chunks : r = FilingRef(c)
    OBVIOUS
  <2> DEFINE ai == c.section = "multimodal_extraction"
             audio == sources[c.uri].type = "earnings_audio" \/ c.section = "earnings_transcript"
             t == IF ai THEN "ai_extraction" ELSE IF audio THEN "audio_transcript" ELSE sources[c.uri].type
             p == IF ai THEN 4 ELSE IF audio THEN 2 ELSE 1
  <2>2. /\ ChunkOK(c) /\ sources[c.uri].type \in RowTypes
    BY ChunkFacts
  <2>3. t \in RefTypes /\ p \in 1..4 /\ (c.section = "earnings_transcript" => p # 1)
    BY <2>2 DEF RefTypes
  <2>4. r = Ref(c.id, t, c.uri, PageOf(c), sources[c.uri].checksum, p, c.section)
    BY <2>1 DEF FilingRef
  <2>5. t = "exchange_filing" => c.uri \notin AudioUris
    BY <2>2 DEF ChunkOK, Contextual
  <2> HIDE DEF t, p
  <2>6. r \in Reference /\ RefOK(r)
    BY <2>3, <2>4, ChunkRefs
  <2>7. r.section = c.section /\ r.type = t /\ r.uri = c.uri /\ r.priority = p
    BY <2>4 DEF Ref
  <2> QED
    BY <2>3, <2>5, <2>6, <2>7 DEF RecentOK
<1> HIDE DEF recent
<1>4. /\ x \in Asked /\ x.pc = "semantic" /\ x.recent = recent
      /\ x.base = analysis[a].base /\ x.refs = analysis[a].refs
  BY <1>1, <1>3 DEF Asked
<1>5. analysis' = [analysis EXCEPT ![a] = x]
  BY <1>1, <1>2 DEF recent, Asked
<1> HIDE DEF x
<1>6. analysis'[a] = x
  BY <1>1, <1>5
<1>7. AnalysisOK(a)'
  BY <1>1, <1>3, <1>4, <1>6 DEF AnalysisOK, RefOK, BaseOK, RecentOK, Given, AudioUris
<1> QED
  BY <1>1, <1>4, <1>5, <1>7, AnalysisStep

(* What is found by meaning is merged with what was read and what the       *)
(* context made.                                                            *)
LEMMA SearchSemanticStep ==
  ASSUME Catalog, NEW a \in Analyses, SearchSemantic(a)
  PROVE  Catalog'
<1>1. /\ CatalogTypeOK /\ analysis \in [Analyses -> Asked] /\ analysis[a] \in Asked /\ AnalysisOK(a)
      /\ UNCHANGED <<setting, version, events, sources, chunks, cited, written, ingest>>
  BY AskedTypes DEF SearchSemantic
<1> DEFINE base == analysis[a].base
           recent == analysis[a].recent
<1>2. PICK found \in SUBSET {SemanticRef(c) : c \in Searchable} :
        /\ \A r, s \in found : SameEvidence(r, s) => r = s
        /\ analysis' = [analysis EXCEPT ![a].pc = "cache", ![a].base = {}, ![a].recent = {},
                          ![a].refs = ThenOthers(base, ThenOthers(found, recent))]
  BY DEF SearchSemantic
<1> DEFINE refs == ThenOthers(base, ThenOthers(found, recent))
           x == [analysis[a] EXCEPT !.pc = "cache", !.base = {}, !.recent = {}, !.refs = refs]
<1>3. ASSUME NEW r \in found
      PROVE  /\ r \in Reference /\ RefOK(r) /\ r.type = "exchange_filing"
             /\ r.checksum = sources[r.uri].checksum
             /\ r.uri \in AudioUris => r.page = -1
             /\ r.section = "earnings_transcript" => r.uri \in AudioUris
  <2>1. PICK c \in Searchable : r = SemanticRef(c)
    OBVIOUS
  <2>2. c \in chunks /\ sources[c.uri].type = "exchange_filing"
    BY <2>1 DEF Searchable
  <2>3. ChunkOK(c) /\ (c.section = "earnings_transcript" => PageOf(c) = -1)
    BY <2>2, ChunkFacts
  <2>4. r = Ref(c.id, "exchange_filing", c.uri, PageOf(c), sources[c.uri].checksum, 1, c.section)
    BY <2>1, <2>2 DEF SemanticRef
  <2>5. r \in Reference /\ RefOK(r)
    BY <2>2, <2>4, ChunkRefs DEF RefTypes, RowTypes
  <2>6. r.section = c.section /\ r.type = "exchange_filing" /\ r.uri = c.uri /\ r.page = PageOf(c)
        /\ r.checksum = sources[c.uri].checksum
    BY <2>4 DEF Ref
  <2> QED
    BY <2>2, <2>3, <2>5, <2>6 DEF ChunkOK, Contextual
<1>4. /\ \A r \in refs : r \in base \/ r \in found \/ r \in recent
      /\ \A r \in refs, s \in base : r \notin base => ~SameEvidence(r, s)
  BY DEF ThenOthers
<1>5. /\ \A r \in base : r \in Reference /\ RefOK(r) /\ BaseOK(r)
      /\ \A r \in recent : r \in Reference /\ RefOK(r) /\ RecentOK(r)
  BY <1>1 DEF AnalysisOK, Asked
<1> HIDE DEF refs, base, recent
<1>6. refs \in SUBSET Reference /\ \A r \in refs : RefOK(r)
  BY <1>3, <1>4, <1>5
<1>7. Secondary(refs)
  <2> SUFFICES ASSUME NEW r \in refs, NEW s \in refs,
                      r.section = "earnings_transcript", r.priority = 1,
                      s.uri = r.uri, s.type = r.type, s # r
               PROVE  s.checksum = 0
    BY DEF Secondary
  <2>1. r \notin base /\ r \notin recent
    BY <1>5 DEF BaseOK, RecentOK
  <2>2. r \in found /\ r.type = "exchange_filing" /\ r.uri \in AudioUris /\ r.page = -1
        /\ r.checksum = sources[r.uri].checksum
    BY <1>3, <1>4, <2>1
  <2>3. CASE s \in base
    <3>1. ~SameEvidence(r, s)
      BY <1>4, <2>1, <2>3
    <3> QED
      BY <1>5, <2>2, <2>3, <3>1 DEF SameEvidence, BaseOK
  <2>4. CASE s \in found
    <3>1. SameEvidence(r, s)
      BY <1>3, <2>2, <2>4 DEF SameEvidence
    <3> QED
      BY <1>2, <2>2, <2>4, <3>1
  <2>5. s \notin recent
    BY <1>5, <2>2 DEF RecentOK
  <2> QED
    BY <1>4, <2>3, <2>4, <2>5
<1>8. /\ x \in Asked /\ x.pc = "cache" /\ x.recent = {} /\ x.base = {} /\ x.refs = refs
  BY <1>1, <1>6 DEF Asked
<1>9. analysis' = [analysis EXCEPT ![a] = x]
  BY <1>1, <1>2 DEF refs, Asked
<1> HIDE DEF x
<1>10. analysis'[a] = x
  BY <1>1, <1>9
<1>11. AnalysisOK(a)'
  BY <1>1, <1>6, <1>7, <1>8, <1>10 DEF AnalysisOK, RefOK, Given, Secondary
<1> QED
  BY <1>1, <1>8, <1>9, <1>11, AnalysisStep

(* Pages come as references of their own.                                   *)
Page(a, r) == r.section = "reference" /\ r.type \in Contextual /\ r.id[1] = a

(* Such a reference is in order whatever is on file,                        *)
LEMMA PagesAreOK ==
  ASSUME NEW a \in Analyses, NEW r, Page(a, r)
  PROVE  RefOK(r) /\ RefOK(r)'
BY CatalogAssumption DEF Page, RefOK, Given

(* and adding some leaves transcripts secondary.                            *)
LEMMA PagesAdded ==
  ASSUME Catalog, NEW a \in Analyses, NEW us \in SUBSET Uris
  PROVE  /\ WithPages(a, us) \in SUBSET Reference
         /\ \A r \in WithPages(a, us) : r \in analysis[a].refs \/ Page(a, r)
         /\ Secondary(WithPages(a, us))
<1>1. analysis[a].refs \subseteq Reference /\ Secondary(analysis[a].refs)
  BY AskedTypes DEF AnalysisOK
<1>2. ASSUME NEW u \in us PROVE PageRef(a, u) \in Reference /\ Page(a, PageRef(a, u))
  <2>1. \E t \in {"official_web", "web"}, p \in 1..4 : PageRef(a, u) = FreshRef(a, t, u, 0, p)
    BY DEF PageRef
  <2>2. {"official_web", "web"} \subseteq Contextual /\ Contextual \subseteq RefTypes
    BY DEF Contextual, RefTypes, RowTypes
  <2> QED
    BY <2>1, <2>2, FreshRefs DEF Page
<1>3. \A r \in WithPages(a, us) : r \in analysis[a].refs \/ (r \in Reference /\ Page(a, r))
  BY <1>2 DEF WithPages
<1>4. Secondary(WithPages(a, us))
  <2> SUFFICES ASSUME NEW r \in WithPages(a, us), NEW s \in WithPages(a, us),
                      r.section = "earnings_transcript", r.priority = 1,
                      s.uri = r.uri, s.type = r.type, s # r
               PROVE  s.checksum = 0
    BY DEF Secondary
  <2>1. r \in analysis[a].refs
    BY <1>3 DEF Page
  <2>2. r.type = "exchange_filing"
    BY <2>1, AskedTypes DEF AnalysisOK, RefOK
  <2>3. s \in analysis[a].refs
    BY <1>3, <2>2 DEF Page, Contextual
  <2> QED
    BY <1>1, <2>1, <2>3 DEF Secondary
<1> QED
  BY <1>1, <1>3, <1>4

(* It uses cached pages, or goes on to search.                              *)
LEMMA AskCacheStep ==
  ASSUME Catalog, NEW a \in Analyses, AskCache(a)
  PROVE  Catalog'
<1>1. /\ CatalogTypeOK /\ analysis \in [Analyses -> Asked] /\ analysis[a] \in Asked /\ AnalysisOK(a)
      /\ UNCHANGED <<setting, version, events, sources, chunks, cited, written, ingest>>
  BY AskedTypes DEF AskCache
<1>2. CachedPages \in SUBSET Uris
  BY DEF CachedPages, HasRow
<1>3. ASSUME NEW x \in Asked, x.pc # "saved", x.refs \in {analysis[a].refs, WithPages(a, CachedPages)},
             x.base = analysis[a].base, x.recent = analysis[a].recent,
             analysis' = [analysis EXCEPT ![a] = x]
      PROVE  Catalog'
  <2>1. analysis'[a] = x
    BY <1>1, <1>3
  <2>2. Secondary(x.refs) /\ \A r \in x.refs : RefOK(r)
    BY <1>1, <1>2, <1>3, PagesAdded, PagesAreOK DEF AnalysisOK
  <2>3. AnalysisOK(a)'
    BY <1>1, <1>3, <2>1, <2>2 DEF AnalysisOK, RefOK, BaseOK, RecentOK, Given, AudioUris, Secondary
  <2> QED
    BY <1>1, <1>3, <2>3, AnalysisStep
<1>4. analysis[a].refs \in SUBSET Reference /\ WithPages(a, CachedPages) \in SUBSET Reference
  BY <1>1, <1>2, PagesAdded DEF Asked
<1>5. CASE analysis' = [analysis EXCEPT ![a].pc = "save"]
  <2> DEFINE x == [analysis[a] EXCEPT !.pc = "save"]
  <2>1. /\ x \in Asked /\ x.pc # "saved" /\ x.refs \in {analysis[a].refs, WithPages(a, CachedPages)}
        /\ x.base = analysis[a].base /\ x.recent = analysis[a].recent
    BY <1>1, <1>2, <1>4 DEF Asked
  <2>2. analysis' = [analysis EXCEPT ![a] = x]
    BY <1>1, <1>5 DEF Asked
  <2> HIDE DEF x
  <2> QED
    BY <1>3, <2>1, <2>2
<1>6. CASE analysis' = [analysis EXCEPT ![a].pc = "save", ![a].refs = WithPages(a, CachedPages)]
  <2> DEFINE x == [analysis[a] EXCEPT !.pc = "save", !.refs = WithPages(a, CachedPages)]
  <2>1. /\ x \in Asked /\ x.pc # "saved" /\ x.refs \in {analysis[a].refs, WithPages(a, CachedPages)}
        /\ x.base = analysis[a].base /\ x.recent = analysis[a].recent
    BY <1>1, <1>2, <1>4 DEF Asked
  <2>2. analysis' = [analysis EXCEPT ![a] = x]
    BY <1>1, <1>6 DEF Asked
  <2> HIDE DEF x
  <2> QED
    BY <1>3, <2>1, <2>2
<1>7. CASE analysis' = [analysis EXCEPT ![a].pc = "search", ![a].cached = CachedPages]
  <2> DEFINE x == [analysis[a] EXCEPT !.pc = "search", !.cached = CachedPages]
  <2>1. /\ x \in Asked /\ x.pc # "saved" /\ x.refs \in {analysis[a].refs, WithPages(a, CachedPages)}
        /\ x.base = analysis[a].base /\ x.recent = analysis[a].recent
    BY <1>1, <1>2, <1>4 DEF Asked
  <2>2. analysis' = [analysis EXCEPT ![a] = x]
    BY <1>1, <1>7 DEF Asked
  <2> HIDE DEF x
  <2> QED
    BY <1>3, <2>1, <2>2
<1> QED
  BY <1>5, <1>6, <1>7 DEF AskCache

(* It searches the web, and stores rows for what it finds.                  *)
LEMMA SearchWebStep ==
  ASSUME Catalog, NEW a \in Analyses, SearchWeb(a)
  PROVE  Catalog'
<1>1. /\ CatalogTypeOK /\ analysis \in [Analyses -> Asked] /\ analysis[a] \in Asked /\ AnalysisOK(a)
      /\ UNCHANGED <<setting, version, events, chunks, cited, written, ingest>>
      /\ analysis[a].refs \in SUBSET Reference /\ analysis[a].cached \in SUBSET Uris
      /\ Pages \subseteq Uris
  BY AskedTypes, CatalogAssumption DEF SearchWeb
<1>2. CASE analysis' = [analysis EXCEPT ![a].pc = "save"] /\ UNCHANGED sources
  <2> DEFINE x == [analysis[a] EXCEPT !.pc = "save"]
  <2>1. /\ x \in Asked /\ x.pc # "saved" /\ x.refs = analysis[a].refs
        /\ x.base = analysis[a].base /\ x.recent = analysis[a].recent
    BY <1>1 DEF Asked
  <2>2. analysis' = [analysis EXCEPT ![a] = x]
    BY <1>2
  <2> HIDE DEF x
  <2>3. analysis'[a] = x
    BY <1>1, <2>2
  <2>4. AnalysisOK(a)'
    BY <1>1, <1>2, <2>1, <2>3 DEF AnalysisOK, RefOK, BaseOK, RecentOK, Given, AudioUris, Secondary
  <2> QED
    BY <1>1, <1>2, <2>1, <2>2, <2>4, AnalysisStep
<1>3. ASSUME NEW found \in SUBSET Pages,
             sources' = Stored(sources, [u \in Uris |-> IF u \in found THEN SourceRow("web_search", 0) ELSE NoRow]),
             analysis' = [analysis EXCEPT ![a].pc = "save", ![a].cached = {},
                            ![a].refs = WithPages(a, found \cup analysis[a].cached)]
      PROVE  Catalog'
  <2> DEFINE new == [u \in Uris |-> IF u \in found THEN SourceRow("web_search", 0) ELSE NoRow]
             R == WithPages(a, found \cup analysis[a].cached)
             x == [analysis[a] EXCEPT !.pc = "save", !.cached = {}, !.refs = R]
  <2>1. \A u \in Uris : new[u] = NoRow \/ (new[u] \in Row /\ new[u].type # "none")
    BY DEF SourceRow, Row, RowTypes
  <2>2. sources' = Stored(sources, new)
    BY <1>3
  <2> HIDE DEF new
  <2>3. /\ RowsStay
        /\ sources' \in [Uris -> Row] /\ \A u \in Uris : sources'[u].type = "none" => sources'[u] = NoRow
    BY <1>1, <2>1, <2>2, StoredRows
  <2>4. /\ R \in SUBSET Reference /\ Secondary(R)
        /\ \A r \in R : r \in analysis[a].refs \/ Page(a, r)
    BY <1>1, PagesAdded
  <2>5. analysis' = [analysis EXCEPT ![a] = x]
    BY <1>1, <1>3 DEF Asked
  <2> HIDE DEF R
  <2>6. /\ x \in Asked /\ x.pc # "saved" /\ x.refs = R
        /\ x.base = analysis[a].base /\ x.recent = analysis[a].recent
    BY <1>1, <2>4 DEF Asked
  <2> HIDE DEF x
  <2>7. analysis'[a] = x /\ \A b \in Analyses : b # a => analysis'[b] = analysis[b]
    BY <1>1, <2>5
  <2>8. CatalogTypeOK'
    BY <1>1, <2>3, <2>5, <2>6 DEF CatalogTypeOK
  <2>9. Grows
    BY <1>1, <2>3 DEF Grows, ChunksAt, CatalogTypeOK
  <2>10. /\ \A r \in analysis[a].base : RefOK(r)' /\ BaseOK(r)'
         /\ \A r \in analysis[a].recent : RefOK(r)' /\ RecentOK(r)'
         /\ \A r \in analysis[a].refs : RefOK(r)'
    BY <1>1, <2>8, <2>9, AskedTypes, RefStays DEF AnalysisOK
  <2>11. \A r \in R : RefOK(r)'
    BY <2>4, <2>10, PagesAreOK
  <2>12. AnalysisOK(a)'
    BY <2>4, <2>6, <2>7, <2>10, <2>11 DEF AnalysisOK, Secondary
  <2>13. \A u \in Range(events)' : sources'[u] # NoRow
    <3>1. Range(events)' = Range(events) /\ Range(events) \subseteq Uris
      BY <1>1, CatalogAssumption DEF Range, CatalogTypeOK
    <3> QED
      BY <2>3, <3>1 DEF Catalog, RowsStay
  <2> QED
    BY <1>1, <2>3, <2>7, <2>8, <2>12, <2>13, RowsStep
<1> QED
  BY <1>2, <1>3 DEF SearchWeb

(* What an output adds to the evidence: sources nobody had, with a chunk    *)
(* each.                                                                    *)
LEMMA NewEvidence ==
  ASSUME Catalog, NEW a \in Analyses, NEW S \in SUBSET analysis[a].refs, SourceIsNew(Missing(S))
  PROVE  \A r \in Missing(S) :
           /\ r \in Reference /\ r.uri \in Uris /\ sources[r.uri] = NoRow
           /\ r.id[1] \in Analyses /\ r.type \in Contextual
           /\ \A s \in Missing(S) : s.uri = r.uri => s = r
           /\ ReferenceChunk(r) \in Chunk
<1> SUFFICES ASSUME NEW r \in Missing(S)
             PROVE  /\ r \in Reference /\ r.uri \in Uris /\ sources[r.uri] = NoRow
                    /\ r.id[1] \in Analyses /\ r.type \in Contextual
                    /\ \A s \in Missing(S) : s.uri = r.uri => s = r
                    /\ ReferenceChunk(r) \in Chunk
  OBVIOUS
<1>1. r \in analysis[a].refs /\ r \in Reference /\ RefOK(r)
  BY AskedTypes DEF Missing, AnalysisOK
<1>2. r.uri \in Uris /\ r.id \in Ids
  BY <1>1 DEF Reference
<1>3. sources[r.uri] = NoRow /\ \A s \in Missing(S) : s.uri = r.uri => s = r
  BY DEF SourceIsNew
<1>4. r.section = "reference" /\ r.id[1] \in Analyses /\ r.type \in Contextual
  BY <1>1, <1>3 DEF RefOK
<1>5. ReferenceChunk(r) \in Chunk
  BY <1>2 DEF ReferenceChunk, Chunk, Sections
<1> QED
  BY <1>1, <1>2, <1>3, <1>4, <1>5

(* The evidence grows by it, and documents stay whole.                      *)
LEMMA SavedDocuments ==
  ASSUME Catalog, NEW a \in Analyses, NEW S \in SUBSET analysis[a].refs, SourceIsNew(Missing(S)),
         sources' = Stored(sources, [u \in Uris |-> ReferenceRow(Missing(S), u)]),
         chunks' = chunks \cup {ReferenceChunk(r) : r \in Missing(S)},
         cited' = cited \cup {<<a, c.id>> : c \in {c \in chunks' : \E r \in S : r.id = c.id}},
         UNCHANGED <<setting, written>>
  PROVE  /\ Grows /\ DocumentsAreWhole'
         /\ \A c \in chunks' \ chunks : ChunkOK(c)'
         /\ chunks' \subseteq Chunk
         /\ sources' \in [Uris -> Row] /\ \A u \in Uris : sources'[u].type = "none" => sources'[u] = NoRow
<1> DEFINE new == Missing(S)
           rows == [u \in Uris |-> ReferenceRow(new, u)]
<1>1. \A r \in new : /\ r \in Reference /\ r.uri \in Uris /\ sources[r.uri] = NoRow
                     /\ r.id[1] \in Analyses /\ r.type \in Contextual
                     /\ \A s \in new : s.uri = r.uri => s = r
                     /\ ReferenceChunk(r) \in Chunk
  BY NewEvidence
<1>2. CatalogTypeOK /\ DocumentsAreWhole /\ \A c \in chunks : ChunkOK(c)
  BY DEF Catalog
<1> HIDE DEF new
<1>3. \A u \in Uris : \/ rows[u] = NoRow /\ \A r \in new : r.uri # u
                      \/ rows[u] \in Row /\ rows[u].type \in Contextual
  <2> SUFFICES ASSUME NEW u \in Uris, NEW r \in new, r.uri = u
               PROVE  rows[u] \in Row /\ rows[u].type \in Contextual
    BY DEF ReferenceRow
  <2>1. (CHOOSE s \in new : s.uri = u) = r
    BY <1>1
  <2>2. rows[u] = SourceRow(r.type, r.checksum)
    BY <2>1 DEF ReferenceRow
  <2>3. r.checksum \in Nat /\ r.type \in Contextual
    BY <1>1 DEF Reference
  <2>4. r.type \in RowTypes /\ Contextual \subseteq RowTypes
    BY <2>3 DEF Contextual, RowTypes
  <2>5. SourceRow(r.type, r.checksum) \in Row /\ SourceRow(r.type, r.checksum).type = r.type
    BY <2>3, <2>4 DEF SourceRow, Row
  <2> HIDE DEF rows
  <2> QED
    BY <2>2, <2>3, <2>5
<1>4. sources' = Stored(sources, rows)
  BY DEF new
<1> HIDE DEF rows
<1>5. /\ RowsStay
      /\ sources' \in [Uris -> Row] /\ \A u \in Uris : sources'[u].type = "none" => sources'[u] = NoRow
      /\ \A u \in Uris : sources'[u] = IF sources[u] = NoRow THEN rows[u] ELSE sources[u]
  BY <1>2, <1>3, <1>4, StoredRows DEF Contextual
<1>6. chunks' = chunks \cup {ReferenceChunk(r) : r \in new}
  BY DEF new
<1>7. \A c \in chunks' \ chunks : \E r \in new : c = ReferenceChunk(r)
  BY <1>6
<1>8. \A r \in new : /\ ReferenceChunk(r).uri = r.uri /\ ReferenceChunk(r).id = r.id
                     /\ ReferenceChunk(r).index = 0 /\ ReferenceChunk(r).section = "reference"
  BY DEF ReferenceChunk
<1>9. \A c \in chunks : c.uri \in Uris /\ sources[c.uri] # NoRow
  BY <1>2 DEF ChunkOK, CatalogTypeOK, Chunk
<1>10. Grows
  <2>1. ASSUME NEW u \in Uris PROVE ChunksAt(u)' = ChunksAt(u) \/ ChunksAt(u)' \cap ChunksAt(u) = {}
    <3>1. CASE sources[u] = NoRow
      BY <1>9, <3>1 DEF ChunksAt
    <3>2. CASE sources[u] # NoRow
      BY <1>1, <1>6, <1>7, <1>8, <3>2 DEF ChunksAt
    <3> QED
      BY <3>1, <3>2
  <2>2. \A c \in chunks' \ chunks : c.id[1] \in Analyses /\ sources[c.uri] = NoRow
    BY <1>1, <1>7, <1>8
  <2> QED
    BY <1>2, <1>5, <2>1, <2>2 DEF Grows, CatalogTypeOK
<1>11. ASSUME NEW c \in chunks' \ chunks PROVE ChunkOK(c)'
  <2>1. PICK r \in new : c = ReferenceChunk(r)
    BY <1>7
  <2>2. c.uri = r.uri /\ c.id = r.id /\ c.section = "reference" /\ r.id[1] \in Analyses
        /\ r.uri \in Uris /\ sources[r.uri] = NoRow
    BY <1>1, <1>8, <2>1
  <2>3. sources'[c.uri] = rows[c.uri] /\ rows[c.uri] \in Row /\ rows[c.uri].type \in Contextual
    BY <1>3, <1>5, <2>2
  <2>4. sources'[c.uri] # NoRow
    BY <2>3 DEF NoRow, Contextual
  <2>5. Given(c.id)'
    BY <2>2, CatalogAssumption DEF Given
  <2> QED
    BY <2>2, <2>3, <2>4, <2>5 DEF ChunkOK
<1>12. DocumentsAreWhole'
  <2>1. ASSUME NEW c \in chunks', NEW d \in chunks', c.uri = d.uri
        PROVE  (c \in chunks /\ d \in chunks) \/ c = d
    <3>1. ASSUME NEW x \in chunks', x \notin chunks
          PROVE  \E r \in new : x = ReferenceChunk(r) /\ x.uri = r.uri /\ sources[x.uri] = NoRow
      BY <1>1, <1>7, <1>8, <3>1
    <3>2. CASE c \in chunks
      BY <1>9, <2>1, <3>1, <3>2
    <3>3. CASE c \notin chunks
      <4>1. d \notin chunks
        BY <1>9, <2>1, <3>1, <3>3
      <4> QED
        BY <1>1, <2>1, <3>1, <3>3, <4>1
    <3> QED
      BY <3>2, <3>3
  <2>2. \A c, d \in chunks' : c.uri = d.uri => BatchOf(c) = BatchOf(d)
    BY <1>2, <2>1 DEF DocumentsAreWhole
  <2>3. ASSUME NEW c \in chunks', NEW k \in 0..(c.index - 1) PROVE \E d \in chunks' : d.uri = c.uri /\ d.index = k
    <3>1. c \in chunks
      BY <1>7, <1>8
    <3>2. \E d \in ChunksAt(c.uri) : d.index = k
      BY <1>2, <3>1 DEF DocumentsAreWhole
    <3> QED
      BY <1>6, <3>2 DEF ChunksAt
  <2>4. ASSUME NEW p \in cited' PROVE \E c \in chunks' : c.id = p[2]
    <3>1. CASE p \in cited
      BY <1>2, <1>6, <3>1 DEF DocumentsAreWhole
    <3>2. CASE p \notin cited
      BY <3>2
    <3> QED
      BY <3>1, <3>2
  <2> QED
    BY <2>2, <2>3, <2>4 DEF DocumentsAreWhole, ChunksAt
<1> QED
  BY <1>1, <1>5, <1>6, <1>10, <1>11, <1>12 DEF CatalogTypeOK, Catalog

(* A report that is saved whole found every chunk it refers to on file.     *)
LEMMA SavedVersions ==
  ASSUME Catalog, NEW a \in Analyses, SourceIsNew(Missing(analysis[a].refs))
  PROVE  OneVersion(analysis[a].refs)
<1> DEFINE R == analysis[a].refs
<1>1. ASSUME NEW r \in R, r.section # "reference"
      PROVE  \E c \in chunks : c.id = r.id /\ c.uri = r.uri /\ BatchOf(c) = BatchOf(r)
  <2>1. RefOK(r) /\ sources[r.uri] # NoRow
    BY <1>1, AskedTypes DEF AnalysisOK, RefOK
  <2>2. r \notin Missing(R)
    BY <2>1 DEF SourceIsNew
  <2>3. PICK c \in chunks : c.id = r.id
    BY <2>2 DEF Missing
  <2> QED
    BY <1>1, <2>1, <2>3 DEF RefOK, BatchOf
<1>2. \A c, d \in chunks : c.uri = d.uri => BatchOf(c) = BatchOf(d)
  BY DEF Catalog, DocumentsAreWhole
<1> SUFFICES ASSUME NEW r \in R, NEW s \in R, r.uri = s.uri, r.section # "reference", s.section # "reference"
             PROVE  BatchOf(r) = BatchOf(s)
  BY DEF OneVersion
<1> QED
  BY <1>1, <1>2

(* It saves an output, or fails.                                            *)
LEMMA SaveOutputStep ==
  ASSUME Catalog, NEW a \in Analyses, SaveOutput(a)
  PROVE  Catalog'
<1>1. /\ CatalogTypeOK /\ analysis \in [Analyses -> Asked] /\ analysis[a] \in Asked /\ AnalysisOK(a)
      /\ UNCHANGED <<setting, version, events, links, ingest, written, kills>>
      /\ analysis[a].refs \in SUBSET Reference
  BY AskedTypes DEF SaveOutput
<1>2. PICK S \in SUBSET analysis[a].refs :
        IF SourceIsNew(Missing(S))
        THEN /\ sources' = Stored(sources, [u \in Uris |-> ReferenceRow(Missing(S), u)])
             /\ chunks' = chunks \cup {ReferenceChunk(r) : r \in Missing(S)}
             /\ cited' = cited \cup {<<a, c.id>> : c \in {c \in chunks' : \E r \in S : r.id = c.id}}
             /\ analysis' = [analysis EXCEPT ![a].saved = @ \cup S,
                               ![a].pc = IF S = analysis[a].refs THEN "saved" ELSE "save"]
        ELSE /\ analysis' = [analysis EXCEPT ![a].pc = "failed"]
             /\ UNCHANGED <<sources, chunks, cited>>
  BY DEF SaveOutput
<1>3. CASE SourceIsNew(Missing(S))
  <2> DEFINE x == [analysis[a] EXCEPT !.saved = @ \cup S, !.pc = IF S = analysis[a].refs THEN "saved" ELSE "save"]
  <2>1. /\ Grows /\ DocumentsAreWhole'
        /\ \A c \in chunks' \ chunks : ChunkOK(c)'
        /\ chunks' \subseteq Chunk
        /\ sources' \in [Uris -> Row] /\ \A u \in Uris : sources'[u].type = "none" => sources'[u] = NoRow
    BY <1>1, <1>2, <1>3, SavedDocuments
  <2>2. analysis' = [analysis EXCEPT ![a] = x]
    BY <1>1, <1>2, <1>3 DEF Asked
  <2>3. /\ x \in Asked /\ (x.pc = "saved" => S = analysis[a].refs) /\ x.refs = analysis[a].refs
        /\ x.base = analysis[a].base /\ x.recent = analysis[a].recent
    BY <1>1 DEF Asked
  <2> HIDE DEF x
  <2>4. analysis'[a] = x /\ \A b \in Analyses : b # a => analysis'[b] = analysis[b]
    BY <1>1, <2>2
  <2>5. CatalogTypeOK'
    BY <1>1, <2>1, <2>2, <2>3 DEF CatalogTypeOK
  <2>6. /\ \A r \in analysis[a].base : RefOK(r)' /\ BaseOK(r)'
        /\ \A r \in analysis[a].recent : RefOK(r)' /\ RecentOK(r)'
        /\ \A r \in analysis[a].refs : RefOK(r)'
    BY <1>1, <2>1, <2>5, AskedTypes, RefStays DEF AnalysisOK
  <2>7. x.pc = "saved" => OneVersion(x.refs)
    BY <1>3, <2>3, SavedVersions
  <2>8. AnalysisOK(a)'
    BY <1>1, <2>3, <2>4, <2>6, <2>7 DEF AnalysisOK, Secondary, OneVersion
  <2>9. \A u \in Range(events)' : sources'[u] # NoRow
    <3>1. Range(events)' = Range(events) /\ Range(events) \subseteq Uris
      BY <1>1, CatalogAssumption DEF Range, CatalogTypeOK
    <3> QED
      BY <2>1, <3>1 DEF Catalog, Grows, RowsStay
  <2> QED
    BY <1>1, <2>1, <2>4, <2>5, <2>8, <2>9, CatalogStep
<1>4. CASE ~SourceIsNew(Missing(S))
  <2> DEFINE x == [analysis[a] EXCEPT !.pc = "failed"]
  <2>1. /\ x \in Asked /\ x.pc # "saved" /\ x.refs = analysis[a].refs
        /\ x.base = analysis[a].base /\ x.recent = analysis[a].recent
    BY <1>1 DEF Asked
  <2>2. analysis' = [analysis EXCEPT ![a] = x] /\ UNCHANGED <<sources, chunks, cited>>
    BY <1>2, <1>4
  <2> HIDE DEF x
  <2>3. analysis'[a] = x
    BY <1>1, <2>2
  <2>4. AnalysisOK(a)'
    BY <1>1, <2>1, <2>2, <2>3 DEF AnalysisOK, RefOK, BaseOK, RecentOK, Given, AudioUris, Secondary
  <2> QED
    BY <1>1, <2>1, <2>2, <2>4, AnalysisStep
<1> QED
  BY <1>3, <1>4

-----------------------------------------------------------------------------
(* The invariant is inductive.                                              *)
LEMMA CatalogNextStep == Catalog /\ [CatalogNext]_catalogVars => Catalog'
<1> SUFFICES ASSUME Catalog, [CatalogNext]_catalogVars PROVE Catalog'
  OBVIOUS
<1>1. setting.ingestors \subseteq Ingestors /\ setting.analyses \subseteq Analyses
  BY SceneTypes DEF Catalog, CatalogTypeOK
<1>2. ASSUME NEW u \in DOMAIN setting.lands,
             Disclose(u) \/ Revise(u) \/ \E i \in setting.ingestors : FetchDocument(i, u)
      PROVE  Catalog'
  BY <1>1, <1>2, DiscloseStep, ReviseStep, FetchStep
<1>3. ASSUME NEW i \in Ingestors,
             \/ EnsureSource(i) \/ ReadFails(i) \/ DeleteChunks(i) \/ InsertChunks(i)
             \/ LinkEvent(i) \/ KillIngestor(i)
      PROVE  Catalog'
  BY <1>3, EnsureSourceStep, ReadFailsStep, DeleteChunksStep, InsertChunksStep, LinkEventStep
<1>4. ASSUME NEW a \in Analyses,
             \/ LoadContext(a) \/ ReadFilings(a) \/ SearchSemantic(a)
             \/ AskCache(a) \/ SearchWeb(a) \/ SaveOutput(a)
      PROVE  Catalog'
  BY <1>4, LoadContextStep, ReadFilingsStep, SearchSemanticStep, AskCacheStep, SearchWebStep, SaveOutputStep
<1>5. CASE UNCHANGED catalogVars
  <2>1. CatalogTypeOK' /\ RowsStay /\ \A u \in Range(events)' : sources'[u] # NoRow
    BY <1>5 DEF catalogVars, Catalog, CatalogTypeOK, RowsStay, Range
  <2> QED
    BY <1>5, <2>1, RowsStep DEF catalogVars
<1> QED
  BY <1>1, <1>2, <1>3, <1>4, <1>5, PageAgesStep DEF CatalogNext

(* It holds at the beginning.                                              *)
LEMMA CatalogInitially == CatalogInit => Catalog
<1> SUFFICES ASSUME CatalogInit PROVE Catalog
  OBVIOUS
<1>1. setting \in Scenes /\ setting.lengths \in Seq(Nat) /\ Len(setting.lengths) \in Nat \ {0}
  BY SceneTypes DEF CatalogInit
<1>2. NoRow \in Row /\ NotAsked \in Asked /\ Resting \in Hands
  BY RestingType DEF NoRow, Row, NotAsked, Asked
<1>3. CatalogTypeOK
  BY <1>1, <1>2 DEF CatalogInit, CatalogTypeOK
<1>4. Range(events) = {} /\ chunks = {} /\ cited = {}
  BY DEF CatalogInit, Range
<1>5. \A i \in Ingestors : IngestOK(i)
  BY RestingType DEF CatalogInit, IngestOK
<1>6. \A a \in Analyses : AnalysisOK(a)
  BY DEF CatalogInit, AnalysisOK, NotAsked, Secondary
<1> QED
  BY <1>3, <1>4, <1>5, <1>6 DEF Catalog, DocumentsAreWhole

(* The invariant holds in every state.                                      *)
LEMMA CatalogHolds == CatalogSpec => []Catalog
<1> QED
  BY CatalogInitially, CatalogNextStep, PTL DEF CatalogSpec

(* Whoever reads a document at the same time, dies or is replaced, the      *)
(* chunks of a source are those of one reading, from the first to the last, *)
(* no claim is linked to a chunk that is gone, and a transcript never       *)
(* stands beside the filing it is of as primary evidence.                   *)
THEOREM DocumentsHold == CatalogSpec => []EvidenceIsWhole
<1>1. Catalog => EvidenceIsWhole
  BY DEF Catalog, AnalysisOK, Secondary, EvidenceIsWhole, TranscriptsAreSecondary
<1> QED
  BY <1>1, CatalogHolds, PTL

(* What an analysis saves rests on one version of each document, whatever   *)
(* was replaced between its readings and its outputs.                       *)
THEOREM VersionsHold == CatalogSpec => []ReportsAreOfOneVersion
<1>1. Catalog => ReportsAreOfOneVersion
  BY DEF Catalog, AnalysisOK, OneVersion, ReportsAreOfOneVersion
<1> QED
  BY <1>1, CatalogHolds, PTL
-----------------------------------------------------------------------------
(* The leases of the live market workers, for any number of workers and      *)
(* users and any lengths of lease, pause, connection and heartbeat.          *)

\* A task has the lease for as long as it was leased when it last renewed it.
Renewing(w, u) ==
  renewed[w][u].ago < Lease => lease[u].by = w /\ lease[u].left >= Lease - renewed[w][u].ago

\* One that has yet to acquire the lease has not renewed it.
Idle(w, u) == pc[w][u] \in {"none", "acquire"} => renewed[w][u].ago = Lease

\* What a task may have spent of its lease that has stayed with one socket.
Direct(w, u) ==
  renewed[w][u].direct =>
    /\ pc[w][u] # "backoff"
    /\ pc[w][u] = "check" => renewed[w][u].ago = 0
    /\ pc[w][u] = "setup" => renewed[w][u].ago <= age[w][u]
    /\ pc[w][u] = "stream" => renewed[w][u].ago <= Setup + age[w][u]

Punctual(w, u) == pc[w][u] \in DOMAIN Waiting => age[w][u] <= Waiting[pc[w][u]]

\* The inductive invariant.
SInv ==
  /\ StreamTypeOK
  /\ \A w \in Workers, u \in Users :
       /\ Renewing(w, u) /\ Idle(w, u) /\ Punctual(w, u)
       /\ stalls = 0 => Direct(w, u)

-----------------------------------------------------------------------------
LEMMA WaitingIs ==
  /\ DOMAIN Waiting = {"setup", "stream", "backoff"}
  /\ Waiting["setup"] = Setup /\ Waiting["stream"] = Beat /\ Waiting["backoff"] = Backoff
BY DEF Waiting

LEMMA Quantities ==
  Setup \in Nat /\ Beat \in Nat /\ Backoff \in Nat /\ Lease \in Nat /\ Lease > 0
BY StreamAssumption

Memories == [ago : 0..Lease, direct : BOOLEAN]
LEMMA MemoriesAre ==
  /\ NotRenewed \in Memories
  /\ \A direct \in BOOLEAN : [ago |-> 0, direct |-> direct] \in Memories
BY Quantities DEF Memories, NotRenewed

\* What the invariant says of one task and its lease.
LEMMA TaskTypes ==
  ASSUME SInv, NEW w \in Workers, NEW u \in Users
  PROVE  /\ lease[u].by \in Holders /\ lease[u].left \in 0..Lease /\ lease[u].left \in Nat
         /\ pc[w][u] \in Steps /\ age[w][u] \in Nat
         /\ renewed[w][u] \in Memories /\ renewed[w][u].ago \in 0..Lease
         /\ pc[w][u] \notin DOMAIN Waiting => age[w][u] = 0
         /\ w \notin up => pc[w][u] = "none" /\ lease[u].by # w
         /\ Renewing(w, u) /\ Idle(w, u) /\ Punctual(w, u) /\ (stalls = 0 => Direct(w, u))
BY StreamAssumption DEF SInv, StreamTypeOK, Memories

\* A task moves on: it writes its user's lease only where the lease is free or
\* its own, and no task that has renewed its lease in time sees a difference.
LEMMA Moves ==
  ASSUME SInv, NEW w \in Workers, NEW u \in Users, NEW step \in Steps, NEW r \in Memories,
         pc[w][u] # "none", Goto(w, u, step), UNCHANGED renewed \/ Remember(w, u, r),
         UNCHANGED <<active, up, stalls, restarts, toggles>>, faults' \in 0..MaxFaults,
         \/ lease' \in {lease, Released(w, u)}
         \/ Available(w, u) /\ lease' = LeasedBy(w, u),
         Renewing(w, u)', Idle(w, u)', stalls = 0 => Direct(w, u)'
  PROVE  SInv'
<1>1. /\ pc \in [Workers -> [Users -> Steps]] /\ age \in [Workers -> [Users -> Nat]]
      /\ lease \in [Users -> [by : Holders, left : 0..Lease]]
      /\ renewed \in [Workers -> [Users -> Memories]]
      /\ w \in up
  BY TaskTypes DEF SInv, StreamTypeOK, Memories
<1>2. /\ pc' \in [Workers -> [Users -> Steps]] /\ age' \in [Workers -> [Users -> Nat]]
      /\ pc'[w][u] = step /\ age'[w][u] = 0
      /\ \A v \in Workers, x \in Users : v # w \/ x # u => pc'[v][x] = pc[v][x] /\ age'[v][x] = age[v][x]
  BY <1>1 DEF Goto
<1>3. /\ renewed' \in [Workers -> [Users -> Memories]]
      /\ \A v \in Workers, x \in Users : v # w \/ x # u => renewed'[v][x] = renewed[v][x]
  <2>1. CASE UNCHANGED renewed
    BY <1>1, <2>1
  <2>2. CASE renewed' = [renewed EXCEPT ![w][u] = r]
    BY <1>1, <2>2
  <2> QED
    BY <2>1, <2>2 DEF Remember
<1>4. /\ lease' \in [Users -> [by : Holders, left : 0..Lease]]
      /\ \A x \in Users \ {u} : lease'[x] = lease[x]
      /\ lease'[u].by \in {lease[u].by, w, Nobody}
  <2>1. w \in Holders /\ Nobody \in Holders /\ Lease \in 0..Lease /\ 0 \in 0..Lease
    BY StreamAssumption DEF Holders
  <2>2. /\ lease[u] \in [by : Holders, left : 0..Lease]
        /\ [by |-> w, left |-> Lease] \in [by : Holders, left : 0..Lease]
        /\ NoLease \in [by : Holders, left : 0..Lease]
    BY <1>1, <2>1 DEF NoLease
  <2>3. CASE lease' = lease
    BY <1>1, <2>3
  <2>4. CASE lease' = [lease EXCEPT ![u] = NoLease]
    BY <1>1, <2>2, <2>4 DEF NoLease
  <2>5. CASE lease' = [lease EXCEPT ![u] = [by |-> w, left |-> Lease]]
    BY <1>1, <2>2, <2>5
  <2> QED
    BY <2>3, <2>4, <2>5 DEF Released, LeasedBy
<1>5. StreamTypeOK'
  <2>1. ASSUME NEW v \in Workers, NEW x \in Users, v \notin up'
        PROVE  pc'[v][x] = "none" /\ lease'[x].by # v
    <3>1. v # w /\ v # Nobody /\ pc[v][x] = "none" /\ lease[x].by # v
      BY <1>1, <2>1, StreamAssumption DEF SInv, StreamTypeOK
    <3> QED
      BY <1>2, <1>4, <3>1
  <2>2. \A v \in Workers, x \in Users : pc'[v][x] \notin DOMAIN Waiting => age'[v][x] = 0
    <3> TAKE v \in Workers, x \in Users
    <3>1. pc[v][x] \notin DOMAIN Waiting => age[v][x] = 0
      BY DEF SInv, StreamTypeOK
    <3>2. CASE v = w /\ x = u
      BY <1>2, <3>2
    <3>3. CASE v # w \/ x # u
      BY <1>2, <3>1, <3>3
    <3> QED
      BY <3>2, <3>3
  <2> QED
    BY <1>2, <1>3, <1>4, <2>1, <2>2 DEF SInv, StreamTypeOK, Memories
<1>6. ASSUME NEW v \in Workers, NEW x \in Users
      PROVE  Renewing(v, x)' /\ Idle(v, x)' /\ Punctual(v, x)' /\ (stalls' = 0 => Direct(v, x)')
  <2>1. CASE v = w /\ x = u
    BY <1>2, <2>1, WaitingIs, StreamAssumption DEF Punctual
  <2>2. CASE v # w \/ x # u
    <3>1. Punctual(v, x)' /\ Idle(v, x)' /\ (stalls' = 0 => Direct(v, x)')
      <4>1. pc'[v][x] = pc[v][x] /\ age'[v][x] = age[v][x] /\ renewed'[v][x] = renewed[v][x]
        BY <1>2, <1>3, <2>2
      <4>2. Punctual(v, x) /\ Idle(v, x) /\ (stalls = 0 => Direct(v, x)) /\ stalls' = stalls
        BY DEF SInv
      <4> QED
        BY <4>1, <4>2 DEF Punctual, Idle, Direct
    <3>2. ASSUME renewed[v][x].ago < Lease
          PROVE  lease'[x] = lease[x]
      <4>1. lease[x].by = v /\ lease[x].left > 0
        BY <3>2, TaskTypes, Quantities DEF Renewing
      <4>2. CASE x # u
        BY <1>4, <4>2
      <4>3. CASE x = u
        BY <2>2, <4>1, <4>3 DEF Released, Available
      <4> QED
        BY <4>2, <4>3
    <3>3. Renewing(v, x)'
      BY <1>3, <2>2, <3>2 DEF SInv, Renewing
    <3> QED
      BY <3>1, <3>3
  <2> QED
    BY <2>1, <2>2
<1> QED
  BY <1>5, <1>6 DEF SInv

-----------------------------------------------------------------------------
(* _run_user and _stream_once.                                             *)

\* Where a move goes, and what it leaves behind.
LEMMA Goes ==
  ASSUME SInv, NEW w \in Workers, NEW u \in Users, NEW step, Goto(w, u, step)
  PROVE  pc'[w][u] = step /\ age'[w][u] = 0
BY DEF SInv, StreamTypeOK, Goto

\* A task that renews its lease has all of it ahead.
LEMMA RenewMoves ==
  ASSUME SInv, NEW w \in Workers, NEW u \in Users, NEW step \in {"check", "stream", "backoff"},
         NEW direct \in BOOLEAN, direct => step # "backoff",
         pc[w][u] # "none", Goto(w, u, step), Renews(w, u, direct), Available(w, u),
         UNCHANGED <<active, up, stalls, restarts, faults, toggles>>
  PROVE  SInv'
<1>1. pc'[w][u] = step /\ age'[w][u] = 0
  BY Goes
<1>2. renewed'[w][u] = [ago |-> 0, direct |-> direct] /\ lease'[u].by = w /\ lease'[u].left = Lease
  BY DEF Renews, Remember, LeasedBy, SInv, StreamTypeOK
<1>3. Renewing(w, u)' /\ Idle(w, u)' /\ Direct(w, u)'
  BY <1>1, <1>2, Quantities DEF Renewing, Idle, Direct
<1>4. step \in Steps /\ faults' \in 0..MaxFaults
  BY DEF Steps, SInv, StreamTypeOK
<1> QED
  BY <1>3, <1>4, Moves, MemoriesAre DEF Renews

\* One that forgets its lease, or never had it, may do with it what it can.
LEMMA ForgetMoves ==
  ASSUME SInv, NEW w \in Workers, NEW u \in Users,
         pc[w][u] # "none", Goto(w, u, "none"),
         renewed'[w][u].ago = Lease, UNCHANGED renewed \/ Remember(w, u, NotRenewed),
         UNCHANGED <<active, up, stalls, restarts, toggles>>, UNCHANGED faults \/ Fault,
         \/ lease' \in {lease, Released(w, u)}
         \/ Available(w, u) /\ lease' = LeasedBy(w, u)
  PROVE  SInv'
<1>1. pc'[w][u] = "none"
  BY Goes
<1>2. Renewing(w, u)' /\ Idle(w, u)' /\ Direct(w, u)'
  BY <1>1, Quantities DEF Renewing, Idle, Direct
<1>3. "none" \in Steps /\ faults' \in 0..MaxFaults
  BY StreamAssumption DEF Steps, SInv, StreamTypeOK, Fault
<1> QED
  BY <1>2, <1>3, Moves, MemoriesAre

\* Steps between, with the lease as it is or a longer one: the time since the
\* last renewal stays.
LEMMA KeepMoves ==
  ASSUME SInv, NEW w \in Workers, NEW u \in Users,
         NEW step \in {"check", "setup", "stream", "retry", "release"}, NEW direct \in BOOLEAN,
         pc[w][u] \notin {"none", "acquire"}, Goto(w, u, step),
         \/ UNCHANGED renewed /\ direct = renewed[w][u].direct
         \/ Remember(w, u, [renewed[w][u] EXCEPT !.direct = FALSE]) /\ ~direct,
         UNCHANGED <<active, up, stalls, restarts, toggles>>, UNCHANGED faults \/ Fault,
         lease' = lease \/ (Alive(w, u) /\ lease' = LeasedBy(w, u)),
         stalls = 0 /\ direct =>
           /\ step = "check" => renewed[w][u].ago = 0
           /\ step = "setup" => renewed[w][u].ago = 0
           /\ step = "stream" => renewed[w][u].ago <= Setup
  PROVE  SInv'
<1>1. pc'[w][u] = step /\ age'[w][u] = 0
  BY Goes
<1>2. renewed[w][u] \in Memories /\ renewed[w][u].ago \in 0..Lease /\ lease[u].left \in 0..Lease
      /\ renewed \in [Workers -> [Users -> Memories]]
  BY TaskTypes DEF SInv, StreamTypeOK, Memories
<1> DEFINE r == [renewed[w][u] EXCEPT !.direct = FALSE]
<1>3. r \in Memories /\ r.ago = renewed[w][u].ago /\ r.direct = FALSE
  BY <1>2 DEF Memories
<1>4. renewed'[w][u].ago = renewed[w][u].ago /\ renewed'[w][u].direct = direct
  <2>1. CASE UNCHANGED renewed /\ direct = renewed[w][u].direct
    BY <2>1
  <2>2. CASE Remember(w, u, r) /\ ~direct
    BY <1>2, <1>3, <2>2 DEF Remember
  <2> QED
    BY <2>1, <2>2
<1>5. Renewing(w, u)'
  <2>1. Renewing(w, u)
    BY TaskTypes
  <2>2. CASE lease' = lease
    BY <1>4, <2>1, <2>2 DEF Renewing
  <2>3. CASE lease' = LeasedBy(w, u)
    <3>1. lease'[u].by = w /\ lease'[u].left = Lease
      BY <2>3 DEF LeasedBy, SInv, StreamTypeOK
    <3> QED
      BY <1>2, <1>4, <3>1, Quantities DEF Renewing
  <2> QED
    BY <2>2, <2>3
<1>6. Idle(w, u)'
  BY <1>1 DEF Idle
<1>7. stalls = 0 => Direct(w, u)'
  BY <1>1, <1>2, <1>4, Quantities DEF Direct
<1>8. step \in Steps /\ faults' \in 0..MaxFaults /\ (Alive(w, u) => Available(w, u)) /\ pc[w][u] # "none"
  BY StreamAssumption DEF Steps, SInv, StreamTypeOK, Fault, Alive, Available
<1> QED
  BY <1>3, <1>5, <1>6, <1>7, <1>8, Moves

LEMMA AcquireMoves ==
  ASSUME SInv, NEW w \in Workers, NEW u \in Users, Acquire(w, u) PROVE SInv'
<1>1. pc[w][u] = "acquire" /\ UNCHANGED <<active, up, stalls, restarts, toggles>>
  BY DEF Acquire
<1>2. CASE Available(w, u) /\ Renews(w, u, TRUE) /\ Goto(w, u, "check") /\ UNCHANGED faults
  BY <1>1, <1>2, RenewMoves
<1>3. CASE /\ lease' = lease \/ (Available(w, u) /\ lease' = LeasedBy(w, u))
           /\ Goto(w, u, "none") /\ UNCHANGED renewed /\ (UNCHANGED faults \/ Fault)
  <2>1. renewed'[w][u].ago = Lease
    BY <1>1, <1>3, TaskTypes DEF Idle
  <2> QED
    BY <1>1, <1>3, <2>1, ForgetMoves
<1> QED
  BY <1>2, <1>3 DEF Acquire

LEMMA CheckUserMoves ==
  ASSUME SInv, NEW w \in Workers, NEW u \in Users, CheckUser(w, u) PROVE SInv'
<1>1. /\ pc[w][u] = "check" /\ UNCHANGED <<active, lease, up, renewed, stalls, restarts, toggles>>
      /\ \E step \in {"setup", "release"} : Goto(w, u, step)
      /\ UNCHANGED faults \/ Fault
  BY DEF CheckUser
<1>2. stalls = 0 /\ renewed[w][u].direct => renewed[w][u].ago = 0
  BY <1>1, TaskTypes DEF Direct
<1>3. renewed[w][u].direct \in BOOLEAN
  BY TaskTypes DEF Memories
<1> QED
  BY <1>1, <1>2, <1>3, KeepMoves

LEMMA ConnectMoves ==
  ASSUME SInv, NEW w \in Workers, NEW u \in Users, Connect(w, u) PROVE SInv'
<1>1. /\ pc[w][u] = "setup" /\ Goto(w, u, "stream")
      /\ UNCHANGED <<active, lease, up, renewed, stalls, restarts, toggles, faults>>
  BY DEF Connect, boundVars
<1>2. stalls = 0 /\ renewed[w][u].direct => renewed[w][u].ago <= Setup
  <2>1. age[w][u] <= Setup /\ age[w][u] \in Nat /\ renewed[w][u].ago \in 0..Lease
    BY <1>1, TaskTypes, WaitingIs DEF Punctual
  <2>2. stalls = 0 /\ renewed[w][u].direct => renewed[w][u].ago <= age[w][u]
    BY <1>1, TaskTypes DEF Direct
  <2> QED
    BY <2>1, <2>2, Quantities
<1>3. renewed[w][u].direct \in BOOLEAN
  BY TaskTypes DEF Memories
<1> QED
  BY <1>1, <1>2, <1>3, KeepMoves

LEMMA InterruptMoves ==
  ASSUME SInv, NEW w \in Workers, NEW u \in Users, Interrupt(w, u) PROVE SInv'
<1>1. renewed[w][u].direct \in BOOLEAN
  BY TaskTypes DEF Memories
<1> QED
  BY <1>1, KeepMoves DEF Interrupt

\* Back to the loop without a heartbeat.
LEMMA BackMoves ==
  ASSUME SInv, NEW w \in Workers, NEW u \in Users, pc[w][u] = "stream", BackToLoop(w, u),
         UNCHANGED <<active, lease, up, stalls, restarts, toggles, faults>>
  PROVE  SInv'
BY KeepMoves DEF BackToLoop

LEMMA HeartbeatMoves ==
  ASSUME SInv, NEW w \in Workers, NEW u \in Users, Heartbeat(w, u) PROVE SInv'
<1>1. pc[w][u] = "stream" /\ UNCHANGED <<active, up, stalls, restarts, toggles, faults>>
  BY DEF Heartbeat, boundVars
<1>2. CASE Alive(w, u) /\ Renews(w, u, TRUE) /\ Goto(w, u, "stream")
  BY <1>1, <1>2, RenewMoves DEF Alive, Available
<1>3. CASE UNCHANGED lease /\ BackToLoop(w, u)
  BY <1>1, <1>3, BackMoves
<1> QED
  BY <1>2, <1>3 DEF Heartbeat

LEMMA RetryMoves ==
  ASSUME SInv, NEW w \in Workers, NEW u \in Users, Retry(w, u) PROVE SInv'
<1>1. pc[w][u] = "retry" /\ UNCHANGED <<active, up, stalls, restarts, toggles>>
      /\ renewed[w][u].direct \in BOOLEAN
  BY TaskTypes DEF Retry, Memories
<1>2. CASE Alive(w, u) /\ Renews(w, u, FALSE) /\ Goto(w, u, "backoff") /\ UNCHANGED faults
  BY <1>1, <1>2, RenewMoves DEF Alive, Available
<1>3. CASE /\ lease' = lease \/ (Alive(w, u) /\ lease' = LeasedBy(w, u))
           /\ Goto(w, u, "release") /\ UNCHANGED renewed /\ (UNCHANGED faults \/ Fault)
  BY <1>1, <1>3, KeepMoves
<1> QED
  BY <1>2, <1>3 DEF Retry

\* After a pause the lease is no longer one just renewed.
LEMMA WakeUpMoves ==
  ASSUME SInv, NEW w \in Workers, NEW u \in Users, WakeUp(w, u) PROVE SInv'
<1>1. /\ pc[w][u] = "backoff" /\ Goto(w, u, "check")
      /\ UNCHANGED <<active, lease, up, renewed, stalls, restarts, toggles, faults>>
  BY DEF WakeUp, boundVars
<1>2. (stalls = 0 => ~renewed[w][u].direct) /\ renewed[w][u].direct \in BOOLEAN
  BY <1>1, TaskTypes DEF Direct, Memories
<1> QED
  BY <1>1, <1>2, KeepMoves

LEMMA ReleaseMoves ==
  ASSUME SInv, NEW w \in Workers, NEW u \in Users, Release(w, u) PROVE SInv'
<1>1. renewed'[w][u].ago = Lease
  BY DEF Release, Remember, NotRenewed, SInv, StreamTypeOK
<1> QED
  BY <1>1, ForgetMoves DEF Release

-----------------------------------------------------------------------------
(* The world outside the tasks, and run_forever.                           *)

LEMMA SInvInit == StreamInit => SInv
<1> SUFFICES ASSUME StreamInit PROVE SInv
  OBVIOUS
<1>1. StreamTypeOK
  BY StreamAssumption, MemoriesAre DEF StreamInit, StreamTypeOK, Steps, Holders, Memories
<1>2. ASSUME NEW w \in Workers, NEW u \in Users
      PROVE  Renewing(w, u) /\ Idle(w, u) /\ Punctual(w, u) /\ Direct(w, u)
  BY WaitingIs, Quantities DEF StreamInit, Renewing, Idle, Punctual, Direct, NotRenewed
<1> QED
  BY <1>1, <1>2 DEF SInv

\* A tick takes from the lease what it adds to the time since it was renewed, and
\* a prompt one what it adds to the wait.
LEMMA TickKeeps == ASSUME SInv, Tick PROVE SInv'
<1>1. /\ lease \in [Users -> [by : Holders, left : 0..Lease]] /\ age \in [Workers -> [Users -> Nat]]
      /\ renewed \in [Workers -> [Users -> Memories]]
      /\ UNCHANGED <<active, up, pc, restarts, faults, toggles>>
  BY DEF SInv, StreamTypeOK, Tick, Memories
<1>2. ASSUME NEW u \in Users
      PROVE  /\ lease[u].left \in 0..Lease /\ lease'[u].by = lease[u].by
             /\ lease'[u].left = IF lease[u].left > 0 THEN lease[u].left - 1 ELSE 0
             /\ lease'[u] \in [by : Holders, left : 0..Lease]
  BY <1>1, StreamAssumption DEF Tick
<1>3. ASSUME NEW w \in Workers, NEW u \in Users
      PROVE  age'[w][u] = IF pc[w][u] \in DOMAIN Waiting /\ age[w][u] < Waiting[pc[w][u]]
                          THEN age[w][u] + 1 ELSE age[w][u]
  BY DEF Tick
<1>4. ASSUME NEW w \in Workers, NEW u \in Users
      PROVE  /\ renewed'[w][u].ago = IF renewed[w][u].ago < Lease THEN renewed[w][u].ago + 1 ELSE Lease
             /\ renewed'[w][u].direct = renewed[w][u].direct
             /\ renewed'[w][u] \in Memories
  <2> DEFINE m == renewed[w][u]
  <2>1. m \in Memories /\ m.ago \in 0..Lease
    BY <1>1 DEF Memories
  <2>2. renewed'[w][u] = [m EXCEPT !.ago = IF @ < Lease THEN @ + 1 ELSE Lease]
    BY DEF Tick
  <2> HIDE DEF m
  <2> QED
    BY <2>1, <2>2, Quantities DEF Memories, m
<1>5. StreamTypeOK'
  <2>1. lease' \in [Users -> [by : Holders, left : 0..Lease]]
    BY <1>2 DEF Tick
  <2>2. age' \in [Workers -> [Users -> Nat]]
    BY <1>1 DEF Tick
  <2>3. renewed' \in [Workers -> [Users -> Memories]]
    BY <1>4 DEF Tick
  <2>4. \A w \in Workers, u \in Users : /\ w \notin up' => pc'[w][u] = "none" /\ lease'[u].by # w
                                        /\ pc'[w][u] \notin DOMAIN Waiting => age'[w][u] = 0
    BY <1>1, <1>2, <1>3 DEF SInv, StreamTypeOK
  <2>5. stalls' \in 0..MaxStalls
    BY StreamAssumption DEF Tick, SInv, StreamTypeOK
  <2> QED
    BY <1>1, <2>1, <2>2, <2>3, <2>4, <2>5 DEF SInv, StreamTypeOK, Memories
<1>6. ASSUME NEW w \in Workers, NEW u \in Users
      PROVE  Renewing(w, u)' /\ Idle(w, u)' /\ Punctual(w, u)' /\ (stalls' = 0 => Direct(w, u)')
  <2>1. /\ renewed[w][u].ago \in 0..Lease /\ age[w][u] \in Nat
        /\ Renewing(w, u) /\ Idle(w, u) /\ Punctual(w, u) /\ (stalls = 0 => Direct(w, u))
    BY TaskTypes
  <2>2. Renewing(w, u)'
    BY <1>2, <1>4, <2>1, Quantities DEF Renewing
  <2>3. Idle(w, u)'
    BY <1>1, <1>4, <2>1, Quantities DEF Idle
  <2>4. Punctual(w, u)'
    BY <1>1, <1>3, <2>1, WaitingIs, Quantities DEF Punctual
  <2>5. ASSUME stalls' = 0, renewed'[w][u].direct PROVE Direct(w, u)'
    <3>1. Prompt /\ stalls = 0
      BY <2>5 DEF Tick, SInv, StreamTypeOK
    <3>2. \/ pc[w][u] \in {"none", "acquire"}
          \/ pc[w][u] \in DOMAIN Waiting /\ age'[w][u] = age[w][u] + 1
      BY <1>3, <3>1 DEF Prompt
    <3>3. renewed'[w][u].ago <= renewed[w][u].ago + 1 /\ renewed[w][u].direct
          /\ renewed'[w][u].ago \in 0..Lease
      BY <1>4, <2>1, <2>5, Quantities DEF Memories
    <3> QED
      BY <1>1, <2>1, <3>1, <3>2, <3>3, WaitingIs, Quantities DEF Direct
  <2> QED
    BY <2>2, <2>3, <2>4, <2>5 DEF Direct
<1> QED
  BY <1>5, <1>6 DEF SInv

\* Steps that leave the leases and what the tasks wait for alone.
LEMMA OutsideKeeps ==
  ASSUME SInv, UNCHANGED <<lease, pc, age, renewed, stalls>>, StreamTypeOK'
  PROVE  SInv'
BY DEF SInv, Renewing, Idle, Punctual, Direct

LEMMA ToggleKeeps == ASSUME SInv, NEW x \in Users, Toggle(x) PROVE SInv'
<1>1. StreamTypeOK'
  BY StreamAssumption DEF Toggle, SInv, StreamTypeOK
<1> QED
  BY <1>1, OutsideKeeps DEF Toggle

LEMMA StartKeeps == ASSUME SInv, NEW w \in Workers, Start(w) PROVE SInv'
<1>1. StreamTypeOK'
  BY DEF Start, boundVars, SInv, StreamTypeOK
<1> QED
  BY <1>1, OutsideKeeps DEF Start, boundVars

\* A process that ends leaves the leases of the others alone.
LEMMA EndsKeeps == ASSUME SInv, NEW w \in Workers, NEW kept \in SUBSET Users, EndsKeeping(w, kept) PROVE SInv'
<1>1. /\ pc \in [Workers -> [Users -> Steps]] /\ age \in [Workers -> [Users -> Nat]]
      /\ lease \in [Users -> [by : Holders, left : 0..Lease]]
      /\ renewed \in [Workers -> [Users -> Memories]]
      /\ up' = up \ {w} /\ UNCHANGED <<active, stalls, faults, toggles>>
  BY DEF EndsKeeping, SInv, StreamTypeOK, Memories
<1>2. /\ pc' \in [Workers -> [Users -> Steps]] /\ age' \in [Workers -> [Users -> Nat]]
      /\ renewed' \in [Workers -> [Users -> Memories]]
      /\ \A u \in Users : pc'[w][u] = "none" /\ age'[w][u] = 0 /\ renewed'[w][u] = NotRenewed
      /\ \A v \in Workers \ {w} : pc'[v] = pc[v] /\ age'[v] = age[v] /\ renewed'[v] = renewed[v]
  BY <1>1, MemoriesAre DEF EndsKeeping, Steps
<1>3. ASSUME NEW u \in Users
      PROVE  /\ lease'[u] \in [by : Holders, left : 0..Lease]
             /\ lease[u].by # w => lease'[u] = lease[u]
             /\ lease[u].by = w => lease'[u].by \in {Gone, Nobody}
  <2>1. /\ lease'[u] = IF lease[u].by # w THEN lease[u]
                       ELSE IF u \in kept THEN [lease[u] EXCEPT !.by = Gone] ELSE NoLease
        /\ lease[u] \in [by : Holders, left : 0..Lease]
        /\ Gone \in Holders /\ Nobody \in Holders /\ 0 \in 0..Lease
    BY <1>1, StreamAssumption DEF EndsKeeping, Holders
  <2> QED
    BY <2>1 DEF NoLease
<1>4. StreamTypeOK'
  <2>1. lease' \in [Users -> [by : Holders, left : 0..Lease]]
    BY <1>3 DEF EndsKeeping
  <2>2. ASSUME NEW v \in Workers, NEW u \in Users
        PROVE  /\ v \notin up' => pc'[v][u] = "none" /\ lease'[u].by # v
               /\ pc'[v][u] \notin DOMAIN Waiting => age'[v][u] = 0
    <3>1. v # Gone /\ v # Nobody
      BY StreamAssumption
    <3> QED
      BY <1>1, <1>2, <1>3, <3>1 DEF SInv, StreamTypeOK
  <2>3. restarts' \in 0..MaxRestarts
    BY StreamAssumption DEF EndsKeeping, SInv, StreamTypeOK
  <2> QED
    BY <1>1, <1>2, <2>1, <2>2, <2>3 DEF SInv, StreamTypeOK, Memories
<1>5. ASSUME NEW v \in Workers, NEW u \in Users
      PROVE  Renewing(v, u)' /\ Idle(v, u)' /\ Punctual(v, u)' /\ (stalls' = 0 => Direct(v, u)')
  <2>1. CASE v = w
    BY <1>2, <2>1, WaitingIs, Quantities DEF Renewing, Idle, Punctual, Direct, NotRenewed
  <2>2. CASE v # w
    <3>1. pc'[v] = pc[v] /\ age'[v] = age[v] /\ renewed'[v] = renewed[v]
      BY <1>2, <2>2
    <3>2. Idle(v, u)' /\ Punctual(v, u)' /\ (stalls' = 0 => Direct(v, u)')
      BY <1>1, <3>1 DEF SInv, Idle, Punctual, Direct
    <3>3. Renewing(v, u)'
      BY <1>3, <2>2, <3>1 DEF SInv, Renewing
    <3> QED
      BY <3>2, <3>3
  <2> QED
    BY <2>1, <2>2
<1> QED
  BY <1>4, <1>5 DEF SInv

LEMMA PollKeeps == ASSUME SInv, NEW w \in Workers, Poll(w) PROVE SInv'
<1>1. /\ w \in up /\ UNCHANGED <<active, lease, up, age, renewed, stalls, restarts, faults, toggles>>
      /\ pc \in [Workers -> [Users -> Steps]]
  BY DEF Poll, boundVars, SInv, StreamTypeOK
<1>2. /\ pc' \in [Workers -> [Users -> Steps]]
      /\ \A v \in Workers, u \in Users :
           pc'[v][u] = pc[v][u] \/ (v = w /\ pc[v][u] = "none" /\ pc'[v][u] = "acquire")
  <2>1. "acquire" \in Steps
    BY DEF Steps
  <2> QED
    BY <1>1, <2>1 DEF Poll
<1>3. StreamTypeOK'
  <2>1. \A v \in Workers, u \in Users : /\ v \notin up' => pc'[v][u] = "none" /\ lease'[u].by # v
                                        /\ pc'[v][u] \notin DOMAIN Waiting => age'[v][u] = 0
    <3> TAKE v \in Workers, u \in Users
    <3>1. /\ v \notin up => pc[v][u] = "none" /\ lease[u].by # v
          /\ pc[v][u] \notin DOMAIN Waiting => age[v][u] = 0
      BY DEF SInv, StreamTypeOK
    <3>2. up' = up /\ lease' = lease /\ age' = age /\ w \in up
      BY <1>1
    <3>3. CASE pc'[v][u] = pc[v][u]
      BY <3>1, <3>2, <3>3
    <3>4. CASE v = w /\ pc[v][u] = "none" /\ pc'[v][u] = "acquire"
      <4>1. "none" \notin DOMAIN Waiting
        BY WaitingIs
      <4> QED
        BY <3>1, <3>2, <3>4, <4>1
    <3> QED
      BY <1>2, <3>3, <3>4
  <2> QED
    BY <1>1, <1>2, <2>1 DEF SInv, StreamTypeOK
<1>4. ASSUME NEW v \in Workers, NEW u \in Users
      PROVE  Renewing(v, u)' /\ Idle(v, u)' /\ Punctual(v, u)' /\ (stalls' = 0 => Direct(v, u)')
  <2>1. CASE pc'[v][u] = pc[v][u]
    BY <1>1, <2>1 DEF SInv, Renewing, Idle, Punctual, Direct
  <2>2. CASE pc[v][u] = "none" /\ pc'[v][u] = "acquire"
    BY <1>1, <2>2, WaitingIs, TaskTypes DEF Renewing, Idle, Punctual, Direct
  <2> QED
    BY <1>2, <2>1, <2>2
<1> QED
  BY <1>3, <1>4 DEF SInv

-----------------------------------------------------------------------------
LEMMA SInvNext == SInv /\ [StreamNext]_streamVars => SInv'
<1> SUFFICES ASSUME SInv, [StreamNext]_streamVars PROVE SInv'
  OBVIOUS
<1>1. CASE Tick
  BY <1>1, TickKeeps
<1>2. ASSUME NEW u \in Users, Toggle(u) PROVE SInv'
  BY <1>2, ToggleKeeps
<1>3. ASSUME NEW w \in Workers, Start(w) \/ Stop(w) \/ Crash(w) \/ Poll(w) PROVE SInv'
  BY <1>3, StartKeeps, EndsKeeps, PollKeeps DEF Stop, Crash
<1>4. ASSUME NEW w \in Workers, NEW u \in Users, RunUser(w, u) \/ Interrupt(w, u) PROVE SInv'
  <2>1. CASE Refresh(w, u)
    BY <2>1, BackMoves DEF Refresh, boundVars
  <2> QED
    BY <1>4, <2>1, AcquireMoves, CheckUserMoves, ConnectMoves, HeartbeatMoves, RetryMoves,
       WakeUpMoves, ReleaseMoves, InterruptMoves DEF RunUser
<1>5. CASE UNCHANGED streamVars
  BY <1>5, OutsideKeeps DEF streamVars, SInv, StreamTypeOK
<1> QED
  BY <1>1, <1>2, <1>3, <1>4, <1>5 DEF StreamNext

LEMMA SInvImplies == SInv => StreamInv
<1> SUFFICES ASSUME SInv PROVE StreamInv
  OBVIOUS
<1>1. LeasesExclude
  BY DEF SInv, LeasesExclude, Renewing
<1>2. FirstSocketsAreLeased
  <2> SUFFICES ASSUME stalls = 0, Setup + Beat < Lease, NEW u \in Users, NEW w \in Sockets(u),
                      renewed[w][u].direct
               PROVE  renewed[w][u].ago < Lease
    BY DEF FirstSocketsAreLeased
  <2>1. w \in Workers /\ pc[w][u] = "stream"
    BY DEF Sockets
  <2>2. age[w][u] <= Beat /\ age[w][u] \in Nat /\ renewed[w][u].ago \in 0..Lease
    BY <2>1, TaskTypes, WaitingIs DEF Punctual
  <2>3. renewed[w][u].ago <= Setup + age[w][u]
    BY <2>1, TaskTypes DEF Direct
  <2> QED
    BY <2>2, <2>3, Quantities
<1> QED
  BY <1>1, <1>2 DEF SInv, StreamInv, SocketsAreLeased

\* For any number of workers and users and any lengths of lease, pause, connection
\* and heartbeat, through errors, restarts, lost acknowledgements and stalls: a
\* task has its user's lease to itself for as long as it was leased when it last
\* renewed it.  Where a lease outlasts a connection and a heartbeat interval and no
\* task has outstayed its bounds, that covers every socket that was opened with a
\* lease just acquired or has seen its first heartbeat.
THEOREM SocketsCovered == StreamSpec => []StreamInv
<1>1. StreamInit => SInv
  BY SInvInit
<1>2. SInv /\ [StreamNext]_streamVars => SInv'
  BY SInvNext
<1>3. SInv => StreamInv
  BY SInvImplies
<1> QED
  BY <1>1, <1>2, <1>3, PTL DEF StreamSpec
=============================================================================
