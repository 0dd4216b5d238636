------------------------------ MODULE M3UParser ------------------------------
(***************************************************************************)
(* Parse of an M3U playlist, one line at a time, and the key under which   *)
(* RefreshOne files an entry.  The download is cut, without an error, at   *)
(* PlaylistMaxBytes: a body may end after any line, or inside one, and     *)
(* what was read so far counts as the playlist.                            *)
(***************************************************************************)
EXTENDS Naturals, Sequences, FiniteSets

CONSTANTS
  TvgId, NoId,   \* tvg-id attributes; NoId when an EXTINF line has none
  StreamUrl, Stump, \* the URLs of a playlist; what is left of one that is cut
  MaxLines       \* bound: the lines of a body

ASSUME M3UParserAssumption ==
  /\ NoId \notin TvgId /\ Stump \notin StreamUrl
  /\ MaxLines \in Nat

VARIABLES
  lines,         \* history: the lines read, as the upstream meant them
  parser         \* headerSeen, pending and entries, and how the scan ended

parse == <<lines, parser>>

Extinf == [kind: {"extinf"}, id: TvgId \cup {NoId}]
UrlLine == [kind: {"url"}, url: StreamUrl]
Line == [kind: {"blank", "header", "directive"}] \cup Extinf \cup UrlLine

None == [kind |-> "none"]
Listing == [id: TvgId \cup {NoId}, url: StreamUrl \cup {Stump}]

ParserTypeOK ==
  /\ lines \in Seq(Line)
  /\ parser \in [end: {"", "done", "failed"}, headerSeen: BOOLEAN,
                 pending: Extinf \cup {None}, entries: Seq(Listing)]

ParserInit ==
  /\ lines = <<>>
  /\ parser = [end |-> "", headerSeen |-> FALSE, pending |-> None, entries |-> <<>>]

-----------------------------------------------------------------------------
(***************************************************************************)
(* The scan.                                                               *)
(***************************************************************************)

\* The next line that the scanner gives.
Reads(line) ==
  /\ parser.end = ""
  /\ Len(lines) < MaxLines
  /\ lines' = Append(lines, line)

\* Blank lines count nowhere, and directives nowhere behind the header; a
\* second header is a directive.
SkipLine(line) ==
  /\ Reads(line)
  /\ \/ line.kind = "blank"
     \/ parser.headerSeen /\ line.kind \in {"header", "directive"}
  /\ UNCHANGED parser

ReadHeader(line) ==
  /\ Reads(line)
  /\ ~parser.headerSeen
  /\ line.kind # "blank"
  /\ parser' = IF line.kind = "header" THEN [parser EXCEPT !.headerSeen = TRUE]
               ELSE [parser EXCEPT !.end = "failed"]

\* Slip: the EXTINF line of a pending entry stays.
ReadFirstExtinf(line) ==
  /\ Reads(line)
  /\ parser.headerSeen
  /\ line.kind = "extinf"
  /\ parser' = [parser EXCEPT !.pending = IF @ = None THEN line ELSE @]

\* parseExtinf: the entry begins; a pending one without a URL is forgotten.
ReadExtinf(line) ==
  /\ Reads(line)
  /\ parser.headerSeen
  /\ line.kind = "extinf"
  /\ parser' = [parser EXCEPT !.pending = line]

\* Slip: the pending entry stays.
CompleteAgain(url) ==
  parser' = IF parser.pending = None THEN parser
            ELSE [parser EXCEPT
                    !.entries = Append(@, [id |-> parser.pending.id, url |-> url])]

\* The URL completes the pending entry; without one it is skipped.
Complete(url) ==
  parser' = IF parser.pending = None THEN parser
            ELSE [parser EXCEPT !.pending = None,
                    !.entries = Append(@, [id |-> parser.pending.id, url |-> url])]

ReadUrl(line) ==
  /\ Reads(line)
  /\ parser.headerSeen
  /\ line.kind = "url"
  /\ Complete(line.url)

Ended == IF parser.headerSeen THEN "done" ELSE "failed"

\* The body is at its end, or cut between two lines.
EndOfBody ==
  /\ parser.end = ""
  /\ parser' = [parser EXCEPT !.end = Ended]
  /\ UNCHANGED lines

\* The limit falls into a URL: the scanner gives what is left as the last line.
CutInUrl(line) ==
  /\ Reads(line)
  /\ parser.headerSeen /\ line.kind = "url"
  /\ parser' = [parser EXCEPT !.end = "done", !.pending = None,
       !.entries = IF parser.pending = None THEN @
                   ELSE Append(@, [id |-> parser.pending.id, url |-> Stump])]

\* The connection breaks, or a line is longer than the scanner's buffer.
ReadBreaks ==
  /\ parser.end = ""
  /\ parser' = [parser EXCEPT !.end = "failed"]
  /\ UNCHANGED lines

\* The next download.
NextBody ==
  /\ parser.end # ""
  /\ lines' = <<>>
  /\ parser' = [end |-> "", headerSeen |-> FALSE, pending |-> None, entries |-> <<>>]

ParserNext ==
  \/ \E line \in Line :
       SkipLine(line) \/ ReadHeader(line) \/ ReadExtinf(line) \/ ReadUrl(line)
         \/ CutInUrl(line)
  \/ EndOfBody
  \/ ReadBreaks
  \/ NextBody

ParserSpec == ParserInit /\ [][ParserNext]_parse

-----------------------------------------------------------------------------
\* source_channel_id: the tvg-id, or else a slug of the title and a hash of the
\* URL, so that a URL with a new token makes a new channel.
SourceChannelId(entry) == IF entry.id = NoId THEN entry.url ELSE entry.id

\* Which of the given lines give an entry, and the EXTINF line of each: the
\* last one before it, with no URL between the two.
ExtinfOf(body, i) ==
  {j \in 1 .. i - 1 : /\ body[j].kind = "extinf"
                      /\ \A k \in j + 1 .. i - 1 : body[k].kind \notin {"extinf", "url"}}
EntryLines(body) ==
  {i \in DOMAIN body : body[i].kind = "url" /\ ExtinfOf(body, i) # {}}
EntryAt(body, i) ==
  [id |-> body[CHOOSE j \in ExtinfOf(body, i) : TRUE].id, url |-> body[i].url]

\* How many of the entries are on the lines up to i.
Nth(body, i) == Cardinality({k \in EntryLines(body) : k <= i})

\* A playlist that counts as read has, for every EXTINF line that a URL
\* follows, one entry with that URL, in order, whatever stands between; a cut
\* can spoil the URL of the last one, and nothing else.
EntriesAsListed ==
  parser.end = "done" =>
    LET at == EntryLines(lines)
        entry(i) == parser.entries[Nth(lines, i)]
    IN  /\ Len(parser.entries) = Cardinality(at)
        /\ \A i \in at :
             \/ entry(i) = EntryAt(lines, i)
             \/ /\ entry(i) = [EntryAt(lines, i) EXCEPT !.url = Stump]
                /\ \A k \in at : k <= i

\* So a cut may point one channel that has a tvg-id to a broken URL; one
\* without is filed as a channel of its own, and its old row counts as missing.
CutSpoilsOneKey ==
  parser.end = "done" =>
    LET meant == {SourceChannelId(EntryAt(lines, i)) : i \in EntryLines(lines)}
        filed == {SourceChannelId(parser.entries[n]) : n \in DOMAIN parser.entries}
    IN  /\ filed \ meant \subseteq {Stump}
        /\ Cardinality(meant \ filed) <= 1

=============================================================================
