------------------------------- MODULE Mining -------------------------------
(***************************************************************************)
(* One extraction run, from the stored PDF to its rows: the page map with  *)
(* OCR, the overlapping chunks, the model calls with their retries and     *)
(* halvings, and the audit that checks each item against its page.         *)
(*                                                                         *)
(* Text is counted in units, a unit being a piece of wording that stays on *)
(* one page.  Offsets count from 0, as in the code.                        *)
(***************************************************************************)
EXTENDS Naturals, Sequences, FiniteSets, SequencesExt

CONSTANTS
  Words,         \* what a unit may say
  Headings,      \* those that begin a section
  Modal,         \* those counted as requirements by _estimate_requirements
  Invented,      \* wording of no document
  Documents,     \* the PDFs: wording of each page, and the pages without text
  Target,        \* TARGET_CHARS
  Overlap,       \* OVERLAP_CHARS
  MaxChunks,     \* MAX_CHUNKS
  MaxDepth,      \* MAX_RECHUNK_DEPTH
  Retries,       \* PROVIDER_RETRIES
  MaxModals      \* the most whose estimated output fits in max_tokens

ASSUME MiningBounds ==
  /\ {Overlap, MaxChunks, MaxDepth, MaxModals} \subseteq Nat
  /\ Target \in Nat /\ Target > Overlap
  /\ Retries \in Nat \ {0}
  /\ Invented \notin Words
  /\ \A d \in Documents : /\ d.pages \in Seq(Seq(Words))
                          /\ d.scanned \subseteq DOMAIN d.pages

VARIABLES
  doc,       \* the document as printed
  phase,     \* reading, chunking, mining, auditing, and how the run ends
  pages,     \* page_map.pages
  text,      \* its units in order, each with its page
  pos,       \* where build_chunks is
  todo,      \* chunks not yet processed, in order
  attempt,   \* of the chunk being processed: malformed replies
  sent,      \* of this attempt: calls that failed at the provider
  calls,     \* calls made for the chunk that build_chunks made
  leaves,    \* text of the calls that were kept
  failed,    \* failed_chunks
  items,     \* what those calls returned, with the page
  rows       \* requirements that passed the audit

vars == <<doc, phase, pages, text, pos, todo, attempt, sent, calls, leaves, failed, items, rows>>

Chunk == [start: Nat, stop: Nat, from: Nat, to: Nat, depth: 0..MaxDepth]
Item == [words: Words \cup {Invented}, page: Nat]

\* At most this many calls for a chunk: each may be halved MaxDepth times, each
\* part is asked twice, and each question put Retries times.
CallsPerChunk == (2^(MaxDepth + 1) - 1) * 2 * Retries

TypeOK ==
  /\ doc \in Documents
  /\ phase \in {"reading", "chunking", "mining", "auditing", "ready", "failed"}
  /\ pages \in Seq(Seq(Words))
  /\ text \in Seq([words: Words, page: Nat])
  /\ pos \in 0..Len(text)
  /\ todo \in Seq(Chunk)
  /\ attempt \in 0..1 /\ sent \in 0..Retries - 1
  /\ calls \in 0..CallsPerChunk
  /\ leaves \subseteq [start: Nat, stop: Nat]
  /\ failed \in Nat
  /\ items \subseteq Item /\ rows \subseteq Item

Init ==
  /\ doc \in Documents
  /\ phase = "reading"
  /\ pages = <<>> /\ text = <<>> /\ pos = 0
  /\ todo = <<>> /\ attempt = 0 /\ sent = 0 /\ calls = 0
  /\ leaves = {} /\ failed = 0 /\ items = {} /\ rows = {}

Fail ==
  /\ phase' = "failed"
  /\ UNCHANGED <<doc, pages, text, pos, todo, attempt, sent, calls, leaves, failed, items, rows>>

-----------------------------------------------------------------------------
(* build_page_map.                                                         *)

Flagged == SetToSortSeq(doc.scanned, <)

\* ocr_subpdf: the flagged pages are bound together, and page i of the result
\* is the original page flagged_pages[i - 1].  read: the pages, as numbered in
\* the sub-PDF, on which text was found.
OcrBySubPage(read) ==                                         \* mutant
  [i \in read |-> doc.pages[Flagged[i]]]
OcrSubpdf(read) ==
  [p \in {Flagged[i] : i \in read} |-> doc.pages[p]]

\* A page on which OCR finds nothing stays as it was.
Merged(ocr) ==
  [p \in DOMAIN doc.pages |->
     IF p \notin doc.scanned THEN doc.pages[p]
     ELSE IF p \in DOMAIN ocr THEN ocr[p] ELSE <<>>]

\* build_chunks joins the pages in order (page_spans).  A marker before each
\* page, which the model reads as its number, is no unit of its own.
StartOf(ps, p) == Cardinality(UNION {{q} \X DOMAIN ps[q] : q \in 1..p - 1})
Joined(ps) ==
  [k \in 1..StartOf(ps, Len(ps) + 1) |->
     LET p == Cardinality({q \in DOMAIN ps : StartOf(ps, q) < k})
     IN [words |-> ps[p][k - StartOf(ps, p)], page |-> p]]

\* OCR is off or fails on the whole, or reads some of the pages.
ReadPages ==
  /\ phase = "reading"
  /\ \E read \in SUBSET DOMAIN Flagged : pages' = Merged(OcrSubpdf(read))
  /\ text' = Joined(pages')
  /\ phase' = IF text' = <<>> THEN "ready" ELSE "chunking"
  /\ UNCHANGED <<doc, pos, todo, attempt, sent, calls, leaves, failed, items, rows>>

\* A tool fails: the stored file cannot be read.
ReadFails == phase = "reading" /\ Fail

-----------------------------------------------------------------------------
(* build_chunks.                                                           *)

Heads == {i \in 1..Len(text) - 1 : text[i + 1].words \in Headings}

\* Where the section that holds offset p ends.
SectionEnds(p, e) ==
  /\ p < e /\ e \in Heads \cup {Len(text)}
  /\ \A h \in Heads : p < h => e <= h

\* _page_for_offset.
PageAt(p) == text[p + 1].page

\* One chunk, and the next starts an overlap before its end, or with the next
\* section.
Cut(e) ==
  LET stop == IF pos + Target < e THEN pos + Target ELSE e
  IN /\ todo' = Append(todo, [start |-> pos, stop |-> stop, from |-> PageAt(pos),
                              to |-> PageAt(stop - 1), depth |-> 0])
     /\ pos' = IF stop = e THEN e ELSE pos + (Target - Overlap)

\* A heading that opens the document comes after the marker of its page: what is
\* before it is a section, and a chunk, without a unit.
MarkerDue ==
  pos = 0 /\ todo = <<>> /\ Len(text) > 0 /\ text[1].words \in Headings
BuildMarker ==
  /\ phase = "chunking" /\ MarkerDue
  /\ todo' = <<[start |-> 0, stop |-> 0, from |-> 1, to |-> PageAt(0), depth |-> 0]>>
  /\ UNCHANGED <<doc, phase, pages, text, pos, attempt, sent, calls, leaves, failed, items, rows>>

BuildChunk(e) ==
  /\ phase = "chunking" /\ ~MarkerDue /\ SectionEnds(pos, e)
  /\ Cut(e)
  /\ UNCHANGED <<doc, phase, pages, text, attempt, sent, calls, leaves, failed, items, rows>>

StartMining ==
  /\ phase = "chunking" /\ pos = Len(text) /\ Len(todo) <= MaxChunks
  /\ phase' = "mining"
  /\ UNCHANGED <<doc, pages, text, pos, todo, attempt, sent, calls, leaves, failed, items, rows>>

ChunkCapExceeded ==
  phase = "chunking" /\ pos = Len(text) /\ Len(todo) > MaxChunks /\ Fail

-----------------------------------------------------------------------------
(* _process_chunk, for the first of the chunks to do.                      *)

\* halve_chunk: two parts that overlap, pages in proportion.
HalvesApart(c) ==                                             \* mutant
  LET mid == (c.stop - c.start) \div 2
      page == c.from + (c.to - c.from) \div 2
  IN <<[c EXCEPT !.stop = c.start + mid, !.to = page, !.depth = @ + 1],
       [c EXCEPT !.start = c.start + mid, !.from = page, !.depth = @ + 1]>>
Halves(c) ==
  LET mid == (c.stop - c.start) \div 2
      lap == IF Overlap \div 2 < mid THEN Overlap \div 2 ELSE mid
      page == c.from + (c.to - c.from) \div 2
  IN <<[c EXCEPT !.stop = c.start + mid + lap, !.to = page, !.depth = @ + 1],
       [c EXCEPT !.start = c.start + mid - lap, !.from = page, !.depth = @ + 1]>>

Halve(c) ==
  /\ c.depth < MaxDepth
  /\ todo' = Halves(c) \o Tail(todo)
  /\ attempt' = 0 /\ sent' = 0
  /\ UNCHANGED <<doc, phase, pages, text, pos, leaves, failed, items, rows>>

\* The estimate is taken before the call is made.
Dense(c) ==
  /\ Cardinality({p \in c.start..c.stop - 1 : text[p + 1].words \in Modal}) > MaxModals
  /\ c.depth < MaxDepth

Fresh(c) == c.depth = 0 /\ attempt = 0 /\ sent = 0
HalveFirst(c) ==
  /\ attempt = 0 /\ sent = 0 /\ Dense(c)
  /\ calls' = IF c.depth = 0 THEN 0 ELSE calls
  /\ Halve(c)

\* A call of a chunk that is not halved beforehand.
Called(c) ==
  /\ ~Dense(c)
  /\ calls' = IF Fresh(c) THEN 1 ELSE calls + 1

\* 429, 5xx or unreachable: asked again, then the run fails.
OnceMore(c) ==                                                \* mutant
  /\ Called(c) /\ sent < Retries
  /\ sent' = sent + 1
  /\ UNCHANGED <<doc, phase, pages, text, pos, todo, attempt, leaves, failed, items, rows>>
CallUnavailable(c) ==
  /\ Called(c) /\ sent + 1 < Retries
  /\ sent' = sent + 1
  /\ UNCHANGED <<doc, phase, pages, text, pos, todo, attempt, leaves, failed, items, rows>>

\* The last of them, or any other 4xx at once.
CallFails(c) ==
  /\ Called(c)
  /\ phase' = "failed"
  /\ UNCHANGED <<doc, pages, text, pos, todo, attempt, sent, leaves, failed, items, rows>>

\* Truncated, or more than MAX_REQUIREMENTS_PER_CHUNK.
HalveAfter(c) == Called(c) /\ Halve(c)

\* Truncated and halved as often as allowed: counted as failed.
TooDeep(c) ==
  /\ Called(c) /\ c.depth = MaxDepth
  /\ failed' = failed + 1
  /\ todo' = Tail(todo) /\ attempt' = 0 /\ sent' = 0
  /\ UNCHANGED <<doc, phase, pages, text, pos, leaves, items, rows>>

\* Not the JSON asked for: asked once again, then counted as failed.
Malformed(c) ==
  /\ Called(c) /\ sent' = 0
  /\ \/ /\ attempt = 0
        /\ attempt' = 1 /\ UNCHANGED <<todo, failed>>
     \/ /\ attempt = 1
        /\ attempt' = 0 /\ todo' = Tail(todo) /\ failed' = failed + 1
  /\ UNCHANGED <<doc, phase, pages, text, pos, leaves, items, rows>>

\* Cites are kept inside the chunk's own pages.
Clamp(c, page) ==
  IF page < c.from THEN c.from ELSE IF page > c.to THEN c.to ELSE page

\* The reply is kept.  The model may cite any page, and wording of its own.
Reply(c, found) ==
  /\ Called(c)
  /\ leaves' = leaves \cup {[start |-> c.start, stop |-> c.stop]}
  /\ items' = items \cup {[i EXCEPT !.page = Clamp(c, @)] : i \in found}
  /\ todo' = Tail(todo) /\ attempt' = 0 /\ sent' = 0
  /\ UNCHANGED <<doc, phase, pages, text, pos, failed, rows>>

\* One item at the most, and one page beyond the last.
Replies(c) ==
  {{}} \cup {{i} : i \in
     [words: {text[p + 1].words : p \in c.start..c.stop - 1} \cup {Invented},
      page: 0..Len(pages) + 1]}

Process(c) ==
  \/ HalveFirst(c) \/ CallUnavailable(c) \/ CallFails(c) \/ HalveAfter(c) \/ TooDeep(c)
  \/ Malformed(c)
  \/ \E found \in Replies(c) : Reply(c, found)

ProcessChunk == phase = "mining" /\ todo # <<>> /\ Process(Head(todo))

\* A chunk that failed fails the run: nothing partial is published.
EndMining ==
  /\ phase = "mining" /\ todo = <<>>
  /\ phase' = IF failed > 0 THEN "failed" ELSE "auditing"
  /\ UNCHANGED <<doc, pages, text, pos, todo, attempt, sent, calls, leaves, failed, items, rows>>

-----------------------------------------------------------------------------
(* locate_source_pages, audit_items, the rows.  Items are requirements,    *)
(* excerpt and body one wording, the fuzzy comparison taken as exact.      *)

On(words) == {p \in DOMAIN pages : words \in Range(pages[p])}

\* Moved only to the one page that has the wording.
ClaimedPage(i) == i                                           \* mutant
Located(i) ==
  IF Cardinality(On(i.words)) = 1
  THEN [i EXCEPT !.page = CHOOSE p \in On(i.words) : TRUE]
  ELSE i

AuditFailure(i) == i.page \notin On(i.words)

\* Exact duplicates, from overlaps and halvings, become one row.
Audit ==
  /\ phase = "auditing"
  /\ rows' = {i \in {Located(j) : j \in items} : ~AuditFailure(i)}
  /\ phase' = "ready"
  /\ UNCHANGED <<doc, pages, text, pos, todo, attempt, sent, calls, leaves, failed, items>>

-----------------------------------------------------------------------------

Next ==
  \/ ReadPages \/ ReadFails
  \/ BuildMarker \/ \E e \in 1..Len(text) : BuildChunk(e)
  \/ StartMining \/ ChunkCapExceeded
  \/ ProcessChunk \/ EndMining \/ Audit

Spec == Init /\ [][Next]_vars

-----------------------------------------------------------------------------

\* A run that is published has shown the model all of the document: every
\* passage of a section, up to the length of the overlap, lies whole in the text
\* of a call whose reply was kept, however chunks were cut, halved and retried.
Passage(i, n) ==
  i + n <= Len(text) /\ \A h \in Heads : ~(i < h /\ h < i + n)
Covered ==
  phase = "ready" =>
    \A i \in 0..Len(text) - 1, n \in 1..Overlap : Passage(i, n) =>
      \E l \in leaves : l.start <= i /\ i + n <= l.stop

\* A published row cites a page of the document as printed that has its wording,
\* OCR or not; and wording that only one page has is published with that page,
\* whatever page the model claimed and the halving guessed.
CitedWhereItIs ==
  phase = "ready" =>
    /\ \A r \in rows : r.words \in Range(doc.pages[r.page])
    /\ \A i \in items : \A p \in DOMAIN pages :
         On(i.words) = {p} => [words |-> i.words, page |-> p] \in rows
=============================================================================
