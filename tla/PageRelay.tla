------------------------------ MODULE PageRelay -----------------------------
(***************************************************************************)
(* How an HTML page gets from the radio to the browser (web_proxy.c,       *)
(* handle_proxy): the proxy puts INJECT_SNIPPET in front of the tag that   *)
(* ends the body.  Below /api/ the page is streamed: it is searched chunk  *)
(* by chunk, and the last STREAM_HOLD bytes are held back in case the tag  *)
(* goes on in the next chunk.  Elsewhere it is read whole into a buffer    *)
(* that grows, and kept in the page cache.  Compressed pages are the       *)
(* business of Inflate, the requests around this of WebProxy.              *)
(***************************************************************************)
EXTENDS Integers, Sequences, FiniteSetsExt, SequencesExt

CONSTANTS
  Tag,             (* "</body>": no suffix of it is a prefix                *)
  Letter,          (* any other byte                                        *)
  Snippet,         (* INJECT_SNIPPET, as one symbol                         *)
  STREAM_HOLD, PROXY_CHUNK_SZ,
  HTML_BUF_INIT,   (* the buffer of a page of unknown length                *)
  HTML_BUF_CAP,
  MaxPage          (* bound: bytes of a page                                *)

RelayAssumption ==
  /\ Len(Tag) \in Nat \ {0} /\ Letter \notin ToSet(Tag)
  /\ Snippet \notin ToSet(Tag) \union {Letter}
  /\ STREAM_HOLD \in Nat /\ Len(Tag) <= STREAM_HOLD /\ PROXY_CHUNK_SZ \in Nat \ {0}
  /\ HTML_BUF_INIT \in Nat \ {0} /\ HTML_BUF_CAP \in Nat /\ MaxPage \in Nat

VARIABLES
  page,            (* what the radio has                                    *)
  relay,           (* stream, buffer; ok, 502                               *)
  radio,           (* what it has still to send                             *)
  acc,             (* acc of the stream, body of the buffer                 *)
  bufcaps,         (* the size of the buffer                                *)
  injected,
  browser,         (* what the browser was sent                             *)
  broken,          (* history: the radio failed or paused too long          *)
  memory           (* history: there was memory for the page with snippet   *)

vars == <<page, relay, radio, acc, bufcaps, injected, browser, broken, memory>>

Init ==
  /\ page \in UNION {[1..n -> ToSet(Tag) \union {Letter}] : n \in 0..MaxPage}
  /\ relay \in {"stream", "buffer"}
  /\ radio = page
  /\ acc = <<>> /\ injected = FALSE /\ browser = <<>>
  /\ bufcaps \in {HTML_BUF_INIT} \union
       (IF relay = "buffer" /\ Len(page) \in 1..(HTML_BUF_CAP - 1) THEN {Len(page) + 1} ELSE {})
  /\ broken = FALSE /\ memory = TRUE

\* rfind_body_tag: where the last tag begins, or 0.
TagIn(b) ==
  LET found == {i \in 1..(Len(b) + 1 - Len(Tag)) : SubSeq(b, i, i + Len(Tag) - 1) = Tag}
  IN  IF found = {} THEN 0 ELSE Max(found)

From(b, i) == SubSeq(b, i, Len(b))
Upto(b, i) == SubSeq(b, 1, i)
Least(a, b) == IF a < b THEN a ELSE b

\* The page with the snippet in front of its last tag, or behind it all.
WithSnippet(b) ==
  LET before == IF TagIn(b) = 0 THEN Len(b) ELSE TagIn(b) - 1
  IN  Upto(b, before) \o <<Snippet>> \o From(b, before + 1)

\* esp_http_client_read: some bytes of what the radio has left.
Reads(room) == {n \in 1..Least(room, PROXY_CHUNK_SZ) : n <= Len(radio)}
-----------------------------------------------------------------------------
(* The stream.                                                              *)

\* Mutant: nothing is held back.
FlushableAll(b) == Len(b)

Flushable(b) == IF Len(b) > STREAM_HOLD THEN Len(b) - STREAM_HOLD ELSE 0

StreamRead ==
  /\ relay = "stream"
  /\ \E n \in Reads(STREAM_HOLD + PROXY_CHUNK_SZ - Len(acc)) :
       LET b == acc \o Upto(radio, n) IN
       /\ radio' = From(radio, n + 1)
       /\ IF injected \/ TagIn(b) # 0
          THEN /\ browser' = browser \o IF injected THEN b ELSE WithSnippet(b)
               /\ acc' = <<>>
               /\ injected' = TRUE
          ELSE /\ browser' = browser \o Upto(b, Flushable(b))
               /\ acc' = From(b, Flushable(b) + 1)
               /\ UNCHANGED injected
  /\ UNCHANGED <<page, relay, bufcaps, broken, memory>>

\* What was held back, and the snippet if there was no tag.
StreamCloses ==
  /\ browser' = browser \o IF injected THEN <<>> ELSE Append(acc, Snippet)
  /\ relay' = "ok"
  /\ UNCHANGED <<page, radio, acc, bufcaps, injected, memory>>

StreamEnds ==
  /\ relay = "stream" /\ radio = <<>>
  /\ StreamCloses
  /\ UNCHANGED broken

\* The radio fails, or is silent for 20 tries: a page that was begun is closed
\* like a whole one.
StreamFails ==
  /\ relay = "stream"
  /\ broken' = TRUE
  /\ IF browser # <<>>
     THEN StreamCloses
     ELSE relay' = "502" /\ UNCHANGED <<page, radio, acc, bufcaps, injected, browser, memory>>

Stream == StreamRead \/ StreamEnds \/ StreamFails
-----------------------------------------------------------------------------
(* The buffer.                                                              *)

Refused ==
  /\ relay' = "502"
  /\ UNCHANGED <<page, radio, acc, bufcaps, injected, browser, memory>>

\* A full buffer is doubled, up to its cap and as long as there is memory.
BufferGrows ==
  /\ relay = "buffer" /\ Len(acc) >= bufcaps
  /\ \/ 2 * bufcaps <= HTML_BUF_CAP
        /\ bufcaps' = 2 * bufcaps
        /\ UNCHANGED <<page, relay, radio, acc, injected, browser, broken, memory>>
     \/ Refused /\ UNCHANGED broken

BufferRead ==
  /\ relay = "buffer" /\ Len(acc) < bufcaps
  /\ \E n \in Reads(bufcaps - Len(acc)) :
       acc' = acc \o Upto(radio, n) /\ radio' = From(radio, n + 1)
  /\ UNCHANGED <<page, relay, bufcaps, injected, browser, broken, memory>>

\* Without memory for the longer page it goes out as it is.
BufferServed ==
  /\ relay' = "ok"
  /\ memory' \in BOOLEAN
  /\ injected' = memory'
  /\ browser' = IF memory' THEN WithSnippet(acc) ELSE acc
  /\ UNCHANGED <<page, radio, acc, bufcaps>>

BufferEnds ==
  /\ relay = "buffer" /\ Len(acc) < bufcaps /\ radio = <<>>
  /\ BufferServed
  /\ UNCHANGED broken

\* A radio that pauses (EAGAIN) after the first bytes is taken to have finished.
BufferFails ==
  /\ relay = "buffer" /\ Len(acc) < bufcaps
  /\ broken' = TRUE
  /\ Refused \/ (acc # <<>> /\ BufferServed)

Buffer == BufferGrows \/ BufferRead \/ BufferEnds \/ BufferFails

Next == Stream \/ Buffer
Spec == Init /\ [][Next]_vars
-----------------------------------------------------------------------------
TypeOK ==
  /\ relay \in {"stream", "buffer", "ok", "502"}
  /\ {page, radio, acc} \subseteq Seq(ToSet(Tag) \union {Letter})
  /\ browser \in Seq(ToSet(Tag) \union {Letter, Snippet})
  /\ {injected, broken, memory} \subseteq BOOLEAN
  /\ Len(acc) <= IF relay = "stream" THEN STREAM_HOLD ELSE HTML_BUF_CAP + MaxPage

(* However the radio cuts the page into chunks, the browser gets it whole   *)
(* and with the snippet once: in front of a tag if the page has one, at its *)
(* end if not.  Of a page that broke off it gets the beginning, treated     *)
(* alike (web_proxy.c, STREAM_HOLD and rfind_body_tag).                     *)
SnippetOnce ==
  relay = "ok" /\ memory =>
    \E i \in DOMAIN browser :
      LET plain == Upto(browser, i - 1) \o From(browser, i + 1)
      IN  /\ browser[i] = Snippet
          /\ IsPrefix(plain, page)
          /\ ~broken => plain = page
          /\ IF TagIn(plain) = 0 THEN i = Len(browser)
                                 ELSE IsPrefix(Tag, From(browser, i + 1))
-----------------------------------------------------------------------------
(* Said of this code and not so: each is refuted (README, Divergences).     *)

\* A page is answered, and cached, only when it is complete.
OkIsWhole == relay = "ok" => ~broken
=============================================================================
