--------------------------- MODULE Resources_proofs ---------------------------
(***************************************************************************)
(* What pythonrun.c, parsetok.c and the conversions of object.c take they  *)
(* give back, whichever of their calls fail, objects are destroyed once,   *)
(* in a stack that is bounded, and attributes are read as they were set:   *)
(* proved for any source, any depth of indentation, any set of exceptions, *)
(* any number of initialisations, of objects and of classes.  Each part    *)
(* has an inductive invariant of its own; a step of one part leaves the    *)
(* others alone.                                                           *)
(***************************************************************************)
EXTENDS Resources, Sizes_proofs, SequenceTheorems, TLAPS

-----------------------------------------------------------------------------
(* parsetok().                                                             *)

Types == {"NAME", "NEWLINE", "INDENT", "DEDENT", "ENDMARKER"}
ParseErrors == {"E_OK", "E_DONE", "E_SYNTAX", "E_NOMEM", "E_DECODE", "E_TOKEN", "E_EOF"}

TokType == [live : BOOLEAN, read : Nat, eof : BOOLEAN, indent : Nat, pendin : Int,
            last : Types \cup {"none"}, encoding : BOOLEAN]
PsType == [at : {"idle", "new", "get", "alloc", "add", "end", "finish", "free", "returned"},
           imply : BOOLEAN, started : BOOLEAN, type : Types \cup {"none"},
           last : Types \cup {"none"}, open : Int, str : BOOLEAN, tree : Int,
           n : BOOLEAN, dropped : BOOLEAN]
PerrType == [error : ParseErrors, text : BOOLEAN]
BlocksType == [strings : Int, encodings : Int, texts : Int]

ParseTypeOK ==
  tok \in TokType /\ ps \in PsType /\ perr \in PerrType /\ blocks \in BlocksType

\* The blocks that are open when the parser has the token.
Opened(type, open) ==
  CASE type = "INDENT" -> open + 1
    [] type = "DEDENT" -> open - 1
    [] OTHER -> open

\* What the parser was given and what the tokenizer still owes: as many
\* dedents as there are blocks open.
DedentsInv ==
  /\ ps.open >= 0
  /\ ps.at \in {"idle", "new"} => ps.open = 0 /\ ~ps.started /\ ps.last = "none"
  /\ ps.at \in {"idle", "new", "get", "alloc", "add"} => tok.pendin <= 0
  /\ ps.at \in {"idle", "new"} => tok.indent = 0 /\ tok.pendin = 0
  /\ ps.at = "get" => /\ ps.open = tok.indent - tok.pendin
                      /\ ~ps.started => ps.last \in {"none", "NEWLINE"}
  /\ ps.at \in {"alloc", "add"} => Opened(ps.type, ps.open) = tok.indent - tok.pendin
  /\ ps.imply /\ ~ps.started /\ ps.at \in {"get", "alloc", "add"} => tok.indent = 0
  /\ ps.at \in {"alloc", "add"} =>
       /\ ~ps.started => ps.type = "NEWLINE"
       /\ ps.type = "ENDMARKER" => /\ ps.last \in {"none", "NEWLINE"}
                                   /\ ps.imply => ps.open = 0

\* Who has the strings and the encoding.
OwnersInv ==
  /\ blocks.encodings = IF tok.encoding THEN 1 ELSE 0
  /\ ~ps.dropped => blocks.strings = ps.tree + (IF ps.str THEN 1 ELSE 0)
  /\ ps.dropped => ps.at \in {"free", "returned"}
  /\ ps.str <=> ps.at = "add"
  /\ ps.at \in {"idle", "new"} => ps.tree = 0
  /\ ps.at = "idle" => ~tok.live /\ ~tok.encoding
  /\ ps.at \in {"finish", "free", "returned"} /\ ~ps.n => ps.tree = 0
  /\ ps.at = "returned" => ~tok.live

\* What the error says.
ErrorInv ==
  /\ ps.n => ps.at \in {"finish", "free", "returned"}
  /\ ps.at \in {"end", "finish", "free", "returned"} => perr.error # "E_OK"
  /\ ps.at \in {"finish", "free", "returned"} => (ps.n <=> perr.error = "E_DONE")

ParseInv == ParseTypeOK /\ DedentsInv /\ OwnersInv /\ ErrorInv

\* AddToken, for one answer of the parser.
AddsToken(error) ==
  /\ error = "E_OK" => ps.type # "ENDMARKER"
  /\ Fails(error)
  /\ blocks' = [blocks EXCEPT !.strings = IF Consumed(error) THEN @ ELSE @ - 1]
  /\ ps' = [ps EXCEPT !.at = IF error = "E_OK" THEN "get" ELSE "end",
                      !.str = FALSE, !.last = ps.type, !.open = Opened(ps.type, ps.open),
                      !.tree = IF error \in {"E_OK", "E_DONE"} THEN @ + 1 ELSE @]

LEMMA ParseInitInv == ParseInit => ParseInv
  BY DEF ParseInit, ParseInv, ParseTypeOK, TokType, PsType, PerrType, BlocksType, DedentsInv,
         OwnersInv, ErrorInv, NoTok, NoParser, Opened, Types, ParseErrors

LEMMA ParseNextInv == ParseInv /\ [ParseNext]_parseVars => ParseInv'
<1> SUFFICES ASSUME ParseInv, [ParseNext]_parseVars PROVE ParseInv'
  OBVIOUS
<1>0. /\ ParseTypeOK /\ DedentsInv /\ OwnersInv /\ ErrorInv
      /\ tok.indent \in Nat /\ tok.pendin \in Int /\ tok.live \in BOOLEAN /\ tok.encoding \in BOOLEAN
      /\ ps.open \in Int /\ ps.tree \in Int /\ ps.imply \in BOOLEAN /\ ps.started \in BOOLEAN
      /\ ps.n \in BOOLEAN /\ ps.str \in BOOLEAN /\ ps.dropped \in BOOLEAN
      /\ blocks.strings \in Int /\ blocks.encodings \in Int
  BY DEF ParseInv, ParseTypeOK, TokType, PsType, BlocksType
<1>1. ASSUME NEW imply \in BOOLEAN, NEW encoding \in BOOLEAN, StartParse(imply, encoding)
      PROVE  ParseInv'
  <2>1. CASE /\ ps.at = "idle"
             /\ tok' = [NoTok EXCEPT !.live = TRUE, !.encoding = encoding]
             /\ blocks' = [blocks EXCEPT !.encodings = IF encoding THEN 1 ELSE 0]
             /\ ps' = [NoParser EXCEPT !.at = "new", !.imply = imply]
             /\ UNCHANGED perr
    <3>1. ps' = [at |-> "new", imply |-> imply, started |-> FALSE, type |-> "none",
                 last |-> "none", open |-> 0, str |-> FALSE, tree |-> 0, n |-> FALSE,
                 dropped |-> FALSE]
      BY <1>0, <2>1 DEF ParseTypeOK, PsType, NoTok, NoParser
    <3>2. tok' = [live |-> TRUE, read |-> 0, eof |-> FALSE, indent |-> 0, pendin |-> 0,
                  last |-> "none", encoding |-> encoding]
      BY <1>0, <2>1 DEF ParseTypeOK, TokType, NoTok, NoParser
    <3>3. blocks' = [strings |-> blocks.strings, encodings |-> (IF encoding THEN 1 ELSE 0),
                     texts |-> blocks.texts]
      BY <1>0, <2>1 DEF ParseTypeOK, BlocksType, NoTok, NoParser
    <3>4. /\ ps.at = "idle" /\ perr' = perr
      BY <1>0, <2>1
    <3>5. ParseTypeOK'
      <4>1. ps' \in PsType
        BY <1>0, <3>1, <3>2, <3>3, <3>4 DEF ParseTypeOK, PsType, Types
      <4>2. tok' \in TokType
        BY <1>0, <3>1, <3>2, <3>3, <3>4 DEF ParseTypeOK, TokType, Types
      <4>3. blocks' \in BlocksType
        BY <1>0, <3>1, <3>2, <3>3, <3>4 DEF ParseTypeOK, BlocksType
      <4>4. QED
        BY <1>0, <3>4, <4>1, <4>2, <4>3 DEF ParseTypeOK
    <3>6. DedentsInv'
      BY <1>0, <3>1, <3>2, <3>3, <3>4 DEF DedentsInv, ParseTypeOK, TokType, PsType, Opened
    <3>7. OwnersInv'
      BY <1>0, <3>1, <3>2, <3>3, <3>4 DEF OwnersInv, ParseTypeOK, TokType, PsType, BlocksType
    <3>8. ErrorInv'
      BY <1>0, <3>1, <3>2, <3>3, <3>4 DEF ErrorInv, ParseTypeOK, PsType
    <3>9. QED
      BY <3>5, <3>6, <3>7, <3>8 DEF ParseInv
  <2>2. ASSUME NEW error \in {"E_DECODE", "E_NOMEM"},
               ps.at = "idle",
               ps' = [NoParser EXCEPT !.at = "returned"],
               Fails(error),
               UNCHANGED <<tok, blocks>>
        PROVE  ParseInv'
    <3>1. ps' = [at |-> "returned", imply |-> TRUE, started |-> FALSE, type |-> "none",
                 last |-> "none", open |-> 0, str |-> FALSE, tree |-> 0, n |-> FALSE,
                 dropped |-> FALSE]
      BY <1>0, <2>2 DEF ParseTypeOK, PsType, NoParser, Fails
    <3>2. perr' = [error |-> error, text |-> perr.text]
      BY <1>0, <2>2 DEF ParseTypeOK, PerrType, NoParser, Fails
    <3>3. /\ ps.at = "idle" /\ tok' = tok /\ blocks' = blocks
      BY <1>0, <2>2
    <3>4. ParseTypeOK'
      <4>1. ps' \in PsType
        BY <1>0, <3>1, <3>2, <3>3 DEF ParseTypeOK, PsType, Types
      <4>2. perr' \in PerrType
        BY <1>0, <3>1, <3>2, <3>3 DEF ParseTypeOK, PerrType, ParseErrors
      <4>3. QED
        BY <1>0, <3>3, <4>1, <4>2 DEF ParseTypeOK
    <3>5. DedentsInv'
      BY <1>0, <3>1, <3>2, <3>3 DEF DedentsInv, ParseTypeOK, TokType, PsType, Opened
    <3>6. OwnersInv'
      BY <1>0, <3>1, <3>2, <3>3 DEF OwnersInv, ParseTypeOK, TokType, PsType, BlocksType
    <3>7. ErrorInv'
      BY <1>0, <3>1, <3>2, <3>3 DEF ErrorInv, ParseTypeOK, PsType
    <3>8. QED
      BY <3>4, <3>5, <3>6, <3>7 DEF ParseInv
  <2>3. QED
    BY <1>1, <2>1, <2>2 DEF StartParse
<1>2. CASE NewParser
  <2>1. CASE /\ ps.at = "new"
             /\ ps' = [ps EXCEPT !.at = "get"]
             /\ UNCHANGED <<tok, perr, blocks>>
    <3>1. ps' = [at |-> "get", imply |-> ps.imply, started |-> ps.started, type |-> ps.type,
                 last |-> ps.last, open |-> ps.open, str |-> ps.str, tree |-> ps.tree,
                 n |-> ps.n, dropped |-> ps.dropped]
      BY <1>0, <2>1 DEF ParseTypeOK, PsType
    <3>2. /\ ps.at = "new" /\ tok' = tok /\ perr' = perr /\ blocks' = blocks
      BY <1>0, <2>1
    <3>3. ParseTypeOK'
      <4>1. ps' \in PsType
        BY <1>0, <3>1, <3>2 DEF ParseTypeOK, PsType, Types
      <4>2. QED
        BY <1>0, <3>2, <4>1 DEF ParseTypeOK
    <3>4. DedentsInv'
      BY <1>0, <3>1, <3>2 DEF DedentsInv, ParseTypeOK, TokType, PsType, Opened
    <3>5. OwnersInv'
      BY <1>0, <3>1, <3>2 DEF OwnersInv, ParseTypeOK, TokType, PsType, BlocksType
    <3>6. ErrorInv'
      BY <1>0, <3>1, <3>2 DEF ErrorInv, ParseTypeOK, PsType
    <3>7. QED
      BY <3>3, <3>4, <3>5, <3>6 DEF ParseInv
  <2>2. CASE /\ ps.at = "new"
             /\ ps' = [ps EXCEPT !.at = "returned"]
             /\ Fails("E_NOMEM")
             /\ PyTokenizer_Free
    <3>1. ps' = [at |-> "returned", imply |-> ps.imply, started |-> ps.started, type |-> ps.type,
                 last |-> ps.last, open |-> ps.open, str |-> ps.str, tree |-> ps.tree,
                 n |-> ps.n, dropped |-> ps.dropped]
      BY <1>0, <2>2 DEF ParseTypeOK, PsType, Fails, PyTokenizer_Free, NoTok
    <3>2. tok' = [live |-> FALSE, read |-> 0, eof |-> FALSE, indent |-> 0, pendin |-> 0,
                  last |-> "none", encoding |-> FALSE]
      BY <1>0, <2>2 DEF ParseTypeOK, TokType, Fails, PyTokenizer_Free, NoTok
    <3>3. perr' = [error |-> "E_NOMEM", text |-> perr.text]
      BY <1>0, <2>2 DEF ParseTypeOK, PerrType, Fails, PyTokenizer_Free, NoTok
    <3>4. blocks' = [strings |-> blocks.strings,
                     encodings |-> (IF tok.encoding THEN blocks.encodings - 1 ELSE blocks.encodings),
                     texts |-> blocks.texts]
      BY <1>0, <2>2 DEF ParseTypeOK, BlocksType, Fails, PyTokenizer_Free, NoTok
    <3>5. /\ ps.at = "new"
      BY <1>0, <2>2
    <3>6. ParseTypeOK'
      <4>1. ps' \in PsType
        BY <1>0, <3>1, <3>2, <3>3, <3>4, <3>5 DEF ParseTypeOK, PsType, Types
      <4>2. tok' \in TokType
        BY <1>0, <3>1, <3>2, <3>3, <3>4, <3>5 DEF ParseTypeOK, TokType, Types
      <4>3. perr' \in PerrType
        BY <1>0, <3>1, <3>2, <3>3, <3>4, <3>5 DEF ParseTypeOK, PerrType, ParseErrors
      <4>4. blocks' \in BlocksType
        BY <1>0, <3>1, <3>2, <3>3, <3>4, <3>5 DEF ParseTypeOK, BlocksType
      <4>5. QED
        BY <1>0, <3>5, <4>1, <4>2, <4>3, <4>4 DEF ParseTypeOK
    <3>7. DedentsInv'
      BY <1>0, <3>1, <3>2, <3>3, <3>4, <3>5 DEF DedentsInv, ParseTypeOK, TokType, PsType, Opened
    <3>8. OwnersInv'
      BY <1>0, <3>1, <3>2, <3>3, <3>4, <3>5
         DEF OwnersInv, ParseTypeOK, TokType, PsType, BlocksType
    <3>9. ErrorInv'
      BY <1>0, <3>1, <3>2, <3>3, <3>4, <3>5 DEF ErrorInv, ParseTypeOK, PsType
    <3>10. QED
      BY <3>6, <3>7, <3>8, <3>9 DEF ParseInv
  <2>3. QED
    BY <1>2, <2>1, <2>2 DEF NewParser
<1>3. CASE GetToken
  <2>1. ASSUME NEW type \in {"NAME", "NEWLINE"},
               ps.at = "get",
               Reads(type),
               Takes(type, TRUE),
               UNCHANGED perr,
               UNCHANGED blocks
        PROVE  ParseInv'
    <3>1. ps' = [at |-> "alloc", imply |-> ps.imply, started |-> TRUE, type |-> type,
                 last |-> ps.last, open |-> ps.open, str |-> ps.str, tree |-> ps.tree,
                 n |-> ps.n, dropped |-> ps.dropped]
      BY <1>0, <2>1 DEF ParseTypeOK, PsType, Reads, Takes
    <3>2. tok' = [live |-> tok.live, read |-> tok.read + 1, eof |-> tok.eof,
                  indent |-> tok.indent, pendin |-> tok.pendin, last |-> type,
                  encoding |-> tok.encoding]
      BY <1>0, <2>1 DEF ParseTypeOK, TokType, Reads, Takes
    <3>3. /\ ps.at = "get" /\ tok.pendin = 0 /\ perr' = perr /\ blocks' = blocks
      BY <1>0, <2>1 DEF Reads
    <3>4. ParseTypeOK'
      <4>1. ps' \in PsType
        BY <1>0, <3>1, <3>2, <3>3 DEF ParseTypeOK, PsType, Types
      <4>2. tok' \in TokType
        BY <1>0, <3>1, <3>2, <3>3 DEF ParseTypeOK, TokType, Types
      <4>3. QED
        BY <1>0, <3>3, <4>1, <4>2 DEF ParseTypeOK
    <3>5. DedentsInv'
      BY <1>0, <3>1, <3>2, <3>3 DEF DedentsInv, ParseTypeOK, TokType, PsType, Opened
    <3>6. OwnersInv'
      BY <1>0, <3>1, <3>2, <3>3 DEF OwnersInv, ParseTypeOK, TokType, PsType, BlocksType
    <3>7. ErrorInv'
      BY <1>0, <3>1, <3>2, <3>3 DEF ErrorInv, ParseTypeOK, PsType
    <3>8. QED
      BY <3>4, <3>5, <3>6, <3>7 DEF ParseInv
  <2>2. CASE /\ ps.at = "get"
             /\ Reads("INDENT")
             /\ Takes("INDENT", TRUE)
             /\ UNCHANGED perr
             /\ UNCHANGED blocks
    <3>1. ps' = [at |-> "alloc", imply |-> ps.imply, started |-> TRUE, type |-> "INDENT",
                 last |-> ps.last, open |-> ps.open, str |-> ps.str, tree |-> ps.tree,
                 n |-> ps.n, dropped |-> ps.dropped]
      BY <1>0, <2>2 DEF ParseTypeOK, PsType, Reads, Takes
    <3>2. tok' = [live |-> tok.live, read |-> tok.read + 1, eof |-> tok.eof,
                  indent |-> tok.indent + 1, pendin |-> tok.pendin, last |-> "INDENT",
                  encoding |-> tok.encoding]
      BY <1>0, <2>2 DEF ParseTypeOK, TokType, Reads, Takes
    <3>3. /\ ps.at = "get" /\ tok.pendin = 0 /\ perr' = perr /\ blocks' = blocks
      BY <1>0, <2>2 DEF Reads
    <3>4. ParseTypeOK'
      <4>1. ps' \in PsType
        BY <1>0, <3>1, <3>2, <3>3 DEF ParseTypeOK, PsType, Types
      <4>2. tok' \in TokType
        BY <1>0, <3>1, <3>2, <3>3 DEF ParseTypeOK, TokType, Types
      <4>3. QED
        BY <1>0, <3>3, <4>1, <4>2 DEF ParseTypeOK
    <3>5. DedentsInv'
      BY <1>0, <3>1, <3>2, <3>3 DEF DedentsInv, ParseTypeOK, TokType, PsType, Opened
    <3>6. OwnersInv'
      BY <1>0, <3>1, <3>2, <3>3 DEF OwnersInv, ParseTypeOK, TokType, PsType, BlocksType
    <3>7. ErrorInv'
      BY <1>0, <3>1, <3>2, <3>3 DEF ErrorInv, ParseTypeOK, PsType
    <3>8. QED
      BY <3>4, <3>5, <3>6, <3>7 DEF ParseInv
  <2>3. CASE /\ ps.at = "get"
             /\ Reads("DEDENT")
             /\ Takes("DEDENT", TRUE)
             /\ UNCHANGED perr
             /\ UNCHANGED blocks
    <3>1. ps' = [at |-> "alloc", imply |-> ps.imply, started |-> TRUE, type |-> "DEDENT",
                 last |-> ps.last, open |-> ps.open, str |-> ps.str, tree |-> ps.tree,
                 n |-> ps.n, dropped |-> ps.dropped]
      BY <1>0, <2>3 DEF ParseTypeOK, PsType, Reads, Takes
    <3>2. tok' = [live |-> tok.live, read |-> tok.read + 1, eof |-> tok.eof,
                  indent |-> tok.indent - 1, pendin |-> tok.pendin, last |-> "DEDENT",
                  encoding |-> tok.encoding]
      BY <1>0, <2>3 DEF ParseTypeOK, TokType, Reads, Takes
    <3>3. /\ ps.at = "get" /\ tok.pendin = 0 /\ tok.indent > 0 /\ perr' = perr /\ blocks' = blocks
      BY <1>0, <2>3 DEF Reads
    <3>4. ParseTypeOK'
      <4>1. ps' \in PsType
        BY <1>0, <3>1, <3>2, <3>3 DEF ParseTypeOK, PsType, Types
      <4>2. tok' \in TokType
        BY <1>0, <3>1, <3>2, <3>3 DEF ParseTypeOK, TokType, Types
      <4>3. QED
        BY <1>0, <3>3, <4>1, <4>2 DEF ParseTypeOK
    <3>5. DedentsInv'
      BY <1>0, <3>1, <3>2, <3>3 DEF DedentsInv, ParseTypeOK, TokType, PsType, Opened
    <3>6. OwnersInv'
      BY <1>0, <3>1, <3>2, <3>3 DEF OwnersInv, ParseTypeOK, TokType, PsType, BlocksType
    <3>7. ErrorInv'
      BY <1>0, <3>1, <3>2, <3>3 DEF ErrorInv, ParseTypeOK, PsType
    <3>8. QED
      BY <3>4, <3>5, <3>6, <3>7 DEF ParseInv
  <2>4. CASE /\ ps.at = "get"
             /\ tok.pendin < 0
             /\ tok' = [tok EXCEPT !.pendin = @ + 1]
             /\ Takes("DEDENT", TRUE)
             /\ UNCHANGED perr
             /\ UNCHANGED blocks
    <3>1. ps' = [at |-> "alloc", imply |-> ps.imply, started |-> TRUE, type |-> "DEDENT",
                 last |-> ps.last, open |-> ps.open, str |-> ps.str, tree |-> ps.tree,
                 n |-> ps.n, dropped |-> ps.dropped]
      BY <1>0, <2>4 DEF ParseTypeOK, PsType, Takes
    <3>2. tok' = [live |-> tok.live, read |-> tok.read, eof |-> tok.eof, indent |-> tok.indent,
                  pendin |-> tok.pendin + 1, last |-> tok.last, encoding |-> tok.encoding]
      BY <1>0, <2>4 DEF ParseTypeOK, TokType, Takes
    <3>3. /\ ps.at = "get" /\ tok.pendin < 0 /\ perr' = perr /\ blocks' = blocks
      BY <1>0, <2>4
    <3>4. ParseTypeOK'
      <4>1. ps' \in PsType
        BY <1>0, <3>1, <3>2, <3>3 DEF ParseTypeOK, PsType, Types
      <4>2. tok' \in TokType
        BY <1>0, <3>1, <3>2, <3>3 DEF ParseTypeOK, TokType, Types
      <4>3. QED
        BY <1>0, <3>3, <4>1, <4>2 DEF ParseTypeOK
    <3>5. DedentsInv'
      BY <1>0, <3>1, <3>2, <3>3 DEF DedentsInv, ParseTypeOK, TokType, PsType, Opened
    <3>6. OwnersInv'
      BY <1>0, <3>1, <3>2, <3>3 DEF OwnersInv, ParseTypeOK, TokType, PsType, BlocksType
    <3>7. ErrorInv'
      BY <1>0, <3>1, <3>2, <3>3 DEF ErrorInv, ParseTypeOK, PsType
    <3>8. QED
      BY <3>4, <3>5, <3>6, <3>7 DEF ParseInv
  <2>5. CASE /\ ps.at = "get"
             /\ tok.pendin = 0 /\ tok.indent > 0
             /\ tok' = [tok EXCEPT !.eof = TRUE, !.pendin = 1 - tok.indent, !.indent = 0]
             /\ Takes("DEDENT", TRUE)
             /\ UNCHANGED perr
             /\ UNCHANGED blocks
    <3>1. ps' = [at |-> "alloc", imply |-> ps.imply, started |-> TRUE, type |-> "DEDENT",
                 last |-> ps.last, open |-> ps.open, str |-> ps.str, tree |-> ps.tree,
                 n |-> ps.n, dropped |-> ps.dropped]
      BY <1>0, <2>5 DEF ParseTypeOK, PsType, Takes
    <3>2. tok' = [live |-> tok.live, read |-> tok.read, eof |-> TRUE, indent |-> 0,
                  pendin |-> 1 - tok.indent, last |-> tok.last, encoding |-> tok.encoding]
      BY <1>0, <2>5 DEF ParseTypeOK, TokType, Takes
    <3>3. /\ ps.at = "get" /\ tok.pendin = 0 /\ tok.indent > 0 /\ perr' = perr /\ blocks' = blocks
      BY <1>0, <2>5
    <3>4. ParseTypeOK'
      <4>1. ps' \in PsType
        BY <1>0, <3>1, <3>2, <3>3 DEF ParseTypeOK, PsType, Types
      <4>2. tok' \in TokType
        BY <1>0, <3>1, <3>2, <3>3 DEF ParseTypeOK, TokType, Types
      <4>3. QED
        BY <1>0, <3>3, <4>1, <4>2 DEF ParseTypeOK
    <3>5. DedentsInv'
      BY <1>0, <3>1, <3>2, <3>3 DEF DedentsInv, ParseTypeOK, TokType, PsType, Opened
    <3>6. OwnersInv'
      BY <1>0, <3>1, <3>2, <3>3 DEF OwnersInv, ParseTypeOK, TokType, PsType, BlocksType
    <3>7. ErrorInv'
      BY <1>0, <3>1, <3>2, <3>3 DEF ErrorInv, ParseTypeOK, PsType
    <3>8. QED
      BY <3>4, <3>5, <3>6, <3>7 DEF ParseInv
  <2>6. ASSUME NEW error \in {"E_TOKEN", "E_EOF"},
               ps.at = "get",
               ~tok.eof,
               ps' = [ps EXCEPT !.at = "end"],
               Fails(error),
               UNCHANGED tok,
               UNCHANGED blocks
        PROVE  ParseInv'
    <3>1. ps' = [at |-> "end", imply |-> ps.imply, started |-> ps.started, type |-> ps.type,
                 last |-> ps.last, open |-> ps.open, str |-> ps.str, tree |-> ps.tree,
                 n |-> ps.n, dropped |-> ps.dropped]
      BY <1>0, <2>6 DEF ParseTypeOK, PsType, Fails
    <3>2. perr' = [error |-> error, text |-> perr.text]
      BY <1>0, <2>6 DEF ParseTypeOK, PerrType, Fails
    <3>3. /\ ps.at = "get" /\ ~tok.eof /\ tok' = tok /\ blocks' = blocks
      BY <1>0, <2>6
    <3>4. ParseTypeOK'
      <4>1. ps' \in PsType
        BY <1>0, <3>1, <3>2, <3>3 DEF ParseTypeOK, PsType, Types
      <4>2. perr' \in PerrType
        BY <1>0, <3>1, <3>2, <3>3 DEF ParseTypeOK, PerrType, ParseErrors
      <4>3. QED
        BY <1>0, <3>3, <4>1, <4>2 DEF ParseTypeOK
    <3>5. DedentsInv'
      BY <1>0, <3>1, <3>2, <3>3 DEF DedentsInv, ParseTypeOK, TokType, PsType, Opened
    <3>6. OwnersInv'
      BY <1>0, <3>1, <3>2, <3>3 DEF OwnersInv, ParseTypeOK, TokType, PsType, BlocksType
    <3>7. ErrorInv'
      BY <1>0, <3>1, <3>2, <3>3 DEF ErrorInv, ParseTypeOK, PsType
    <3>8. QED
      BY <3>4, <3>5, <3>6, <3>7 DEF ParseInv
  <2>7. QED
    BY <1>3, <2>1, <2>2, <2>3, <2>4, <2>5, <2>6 DEF GetToken, Dedents
<1>4. CASE EndMarker
  <2>1. CASE /\ ps.at = "get"
             /\ tok.pendin = 0
             /\ ps.started
             /\ Takes("NEWLINE", FALSE)
             /\ ps.imply
             /\ tok' = Implied([tok EXCEPT !.eof = TRUE])
             /\ UNCHANGED <<perr, blocks>>
    <3>1. ps' = [at |-> "alloc", imply |-> ps.imply, started |-> FALSE, type |-> "NEWLINE",
                 last |-> ps.last, open |-> ps.open, str |-> ps.str, tree |-> ps.tree,
                 n |-> ps.n, dropped |-> ps.dropped]
      BY <1>0, <2>1 DEF ParseTypeOK, PsType, Takes, Implied
    <3>2. tok' = [live |-> tok.live, read |-> tok.read, eof |-> TRUE, indent |-> 0,
                  pendin |-> -tok.indent, last |-> tok.last, encoding |-> tok.encoding]
      BY <1>0, <2>1 DEF ParseTypeOK, TokType, Takes, Implied
    <3>3. /\ ps.at = "get" /\ tok.pendin = 0 /\ ps.imply /\ perr' = perr /\ blocks' = blocks
      BY <1>0, <2>1
    <3>4. ParseTypeOK'
      <4>1. ps' \in PsType
        BY <1>0, <3>1, <3>2, <3>3 DEF ParseTypeOK, PsType, Types
      <4>2. tok' \in TokType
        BY <1>0, <3>1, <3>2, <3>3 DEF ParseTypeOK, TokType, Types
      <4>3. QED
        BY <1>0, <3>3, <4>1, <4>2 DEF ParseTypeOK
    <3>5. DedentsInv'
      BY <1>0, <3>1, <3>2, <3>3 DEF DedentsInv, ParseTypeOK, TokType, PsType, Opened
    <3>6. OwnersInv'
      BY <1>0, <3>1, <3>2, <3>3 DEF OwnersInv, ParseTypeOK, TokType, PsType, BlocksType
    <3>7. ErrorInv'
      BY <1>0, <3>1, <3>2, <3>3 DEF ErrorInv, ParseTypeOK, PsType
    <3>8. QED
      BY <3>4, <3>5, <3>6, <3>7 DEF ParseInv
  <2>2. CASE /\ ps.at = "get"
             /\ tok.pendin = 0
             /\ ps.started
             /\ Takes("NEWLINE", FALSE)
             /\ ~ps.imply
             /\ tok' = [tok EXCEPT !.eof = TRUE]
             /\ UNCHANGED <<perr, blocks>>
    <3>1. ps' = [at |-> "alloc", imply |-> ps.imply, started |-> FALSE, type |-> "NEWLINE",
                 last |-> ps.last, open |-> ps.open, str |-> ps.str, tree |-> ps.tree,
                 n |-> ps.n, dropped |-> ps.dropped]
      BY <1>0, <2>2 DEF ParseTypeOK, PsType, Takes
    <3>2. tok' = [live |-> tok.live, read |-> tok.read, eof |-> TRUE, indent |-> tok.indent,
                  pendin |-> tok.pendin, last |-> tok.last, encoding |-> tok.encoding]
      BY <1>0, <2>2 DEF ParseTypeOK, TokType, Takes
    <3>3. /\ ps.at = "get" /\ ~ps.imply /\ perr' = perr /\ blocks' = blocks
      BY <1>0, <2>2
    <3>4. ParseTypeOK'
      <4>1. ps' \in PsType
        BY <1>0, <3>1, <3>2, <3>3 DEF ParseTypeOK, PsType, Types
      <4>2. tok' \in TokType
        BY <1>0, <3>1, <3>2, <3>3 DEF ParseTypeOK, TokType, Types
      <4>3. QED
        BY <1>0, <3>3, <4>1, <4>2 DEF ParseTypeOK
    <3>5. DedentsInv'
      BY <1>0, <3>1, <3>2, <3>3 DEF DedentsInv, ParseTypeOK, TokType, PsType, Opened
    <3>6. OwnersInv'
      BY <1>0, <3>1, <3>2, <3>3 DEF OwnersInv, ParseTypeOK, TokType, PsType, BlocksType
    <3>7. ErrorInv'
      BY <1>0, <3>1, <3>2, <3>3 DEF ErrorInv, ParseTypeOK, PsType
    <3>8. QED
      BY <3>4, <3>5, <3>6, <3>7 DEF ParseInv
  <2>3. CASE /\ ps.at = "get"
             /\ tok.pendin = 0
             /\ ~ps.started
             /\ Takes("ENDMARKER", TRUE)
             /\ tok' = [tok EXCEPT !.eof = TRUE]
             /\ UNCHANGED <<perr, blocks>>
    <3>1. ps' = [at |-> "alloc", imply |-> ps.imply, started |-> TRUE, type |-> "ENDMARKER",
                 last |-> ps.last, open |-> ps.open, str |-> ps.str, tree |-> ps.tree,
                 n |-> ps.n, dropped |-> ps.dropped]
      BY <1>0, <2>3 DEF ParseTypeOK, PsType, Takes
    <3>2. tok' = [live |-> tok.live, read |-> tok.read, eof |-> TRUE, indent |-> tok.indent,
                  pendin |-> tok.pendin, last |-> tok.last, encoding |-> tok.encoding]
      BY <1>0, <2>3 DEF ParseTypeOK, TokType, Takes
    <3>3. /\ ps.at = "get" /\ ~ps.started /\ tok.pendin = 0 /\ perr' = perr /\ blocks' = blocks
      BY <1>0, <2>3
    <3>4. ParseTypeOK'
      <4>1. ps' \in PsType
        BY <1>0, <3>1, <3>2, <3>3 DEF ParseTypeOK, PsType, Types
      <4>2. tok' \in TokType
        BY <1>0, <3>1, <3>2, <3>3 DEF ParseTypeOK, TokType, Types
      <4>3. QED
        BY <1>0, <3>3, <4>1, <4>2 DEF ParseTypeOK
    <3>5. DedentsInv'
      BY <1>0, <3>1, <3>2, <3>3 DEF DedentsInv, ParseTypeOK, TokType, PsType, Opened
    <3>6. OwnersInv'
      BY <1>0, <3>1, <3>2, <3>3 DEF OwnersInv, ParseTypeOK, TokType, PsType, BlocksType
    <3>7. ErrorInv'
      BY <1>0, <3>1, <3>2, <3>3 DEF ErrorInv, ParseTypeOK, PsType
    <3>8. QED
      BY <3>4, <3>5, <3>6, <3>7 DEF ParseInv
  <2>4. QED
    BY <1>4, <2>1, <2>2, <2>3 DEF EndMarker
<1>5. CASE AllocString
  <2>1. CASE /\ ps.at = "alloc"
             /\ ps' = [ps EXCEPT !.at = "add", !.str = TRUE]
             /\ blocks' = [blocks EXCEPT !.strings = @ + 1]
             /\ UNCHANGED perr
             /\ UNCHANGED tok
    <3>1. ps' = [at |-> "add", imply |-> ps.imply, started |-> ps.started, type |-> ps.type,
                 last |-> ps.last, open |-> ps.open, str |-> TRUE, tree |-> ps.tree, n |-> ps.n,
                 dropped |-> ps.dropped]
      BY <1>0, <2>1 DEF ParseTypeOK, PsType
    <3>2. blocks' = [strings |-> blocks.strings + 1, encodings |-> blocks.encodings,
                     texts |-> blocks.texts]
      BY <1>0, <2>1 DEF ParseTypeOK, BlocksType
    <3>3. /\ ps.at = "alloc" /\ tok' = tok /\ perr' = perr
      BY <1>0, <2>1
    <3>4. ParseTypeOK'
      <4>1. ps' \in PsType
        BY <1>0, <3>1, <3>2, <3>3 DEF ParseTypeOK, PsType, Types
      <4>2. blocks' \in BlocksType
        BY <1>0, <3>1, <3>2, <3>3 DEF ParseTypeOK, BlocksType
      <4>3. QED
        BY <1>0, <3>3, <4>1, <4>2 DEF ParseTypeOK
    <3>5. DedentsInv'
      BY <1>0, <3>1, <3>2, <3>3 DEF DedentsInv, ParseTypeOK, TokType, PsType, Opened
    <3>6. OwnersInv'
      BY <1>0, <3>1, <3>2, <3>3 DEF OwnersInv, ParseTypeOK, TokType, PsType, BlocksType
    <3>7. ErrorInv'
      BY <1>0, <3>1, <3>2, <3>3 DEF ErrorInv, ParseTypeOK, PsType
    <3>8. QED
      BY <3>4, <3>5, <3>6, <3>7 DEF ParseInv
  <2>2. CASE /\ ps.at = "alloc"
             /\ ps' = [ps EXCEPT !.at = "end"]
             /\ Fails("E_NOMEM")
             /\ UNCHANGED blocks
             /\ UNCHANGED tok
    <3>1. ps' = [at |-> "end", imply |-> ps.imply, started |-> ps.started, type |-> ps.type,
                 last |-> ps.last, open |-> ps.open, str |-> ps.str, tree |-> ps.tree,
                 n |-> ps.n, dropped |-> ps.dropped]
      BY <1>0, <2>2 DEF ParseTypeOK, PsType, Fails
    <3>2. perr' = [error |-> "E_NOMEM", text |-> perr.text]
      BY <1>0, <2>2 DEF ParseTypeOK, PerrType, Fails
    <3>3. /\ ps.at = "alloc" /\ tok' = tok /\ blocks' = blocks
      BY <1>0, <2>2
    <3>4. ParseTypeOK'
      <4>1. ps' \in PsType
        BY <1>0, <3>1, <3>2, <3>3 DEF ParseTypeOK, PsType, Types
      <4>2. perr' \in PerrType
        BY <1>0, <3>1, <3>2, <3>3 DEF ParseTypeOK, PerrType, ParseErrors
      <4>3. QED
        BY <1>0, <3>3, <4>1, <4>2 DEF ParseTypeOK
    <3>5. DedentsInv'
      BY <1>0, <3>1, <3>2, <3>3 DEF DedentsInv, ParseTypeOK, TokType, PsType, Opened
    <3>6. OwnersInv'
      BY <1>0, <3>1, <3>2, <3>3 DEF OwnersInv, ParseTypeOK, TokType, PsType, BlocksType
    <3>7. ErrorInv'
      BY <1>0, <3>1, <3>2, <3>3 DEF ErrorInv, ParseTypeOK, PsType
    <3>8. QED
      BY <3>4, <3>5, <3>6, <3>7 DEF ParseInv
  <2>3. QED
    BY <1>5, <2>1, <2>2 DEF AllocString
<1>6. CASE AddToken
  <2>1. CASE /\ ps.at = "add"
             /\ AddsToken("E_OK")
             /\ UNCHANGED tok
    <3>1. ps' = [at |-> "get", imply |-> ps.imply, started |-> ps.started, type |-> ps.type,
                 last |-> ps.type, open |-> Opened(ps.type, ps.open), str |-> FALSE,
                 tree |-> ps.tree + 1, n |-> ps.n, dropped |-> ps.dropped]
      BY <1>0, <2>1 DEF ParseTypeOK, PsType, AddsToken, Fails, Consumed
    <3>2. perr' = [error |-> "E_OK", text |-> perr.text]
      BY <1>0, <2>1 DEF ParseTypeOK, PerrType, AddsToken, Fails, Consumed
    <3>3. blocks' = [strings |-> blocks.strings, encodings |-> blocks.encodings,
                     texts |-> blocks.texts]
      BY <1>0, <2>1 DEF ParseTypeOK, BlocksType, AddsToken, Fails, Consumed
    <3>4. /\ ps.at = "add" /\ ps.type # "ENDMARKER" /\ tok' = tok
      BY <1>0, <2>1 DEF AddsToken
    <3>5. ParseTypeOK'
      <4>1. ps' \in PsType
        BY <1>0, <3>1, <3>2, <3>3, <3>4 DEF ParseTypeOK, PsType, Types, Opened
      <4>2. perr' \in PerrType
        BY <1>0, <3>1, <3>2, <3>3, <3>4 DEF ParseTypeOK, PerrType, ParseErrors
      <4>3. blocks' \in BlocksType
        BY <1>0, <3>1, <3>2, <3>3, <3>4 DEF ParseTypeOK, BlocksType
      <4>4. QED
        BY <1>0, <3>4, <4>1, <4>2, <4>3 DEF ParseTypeOK
    <3>6. DedentsInv'
      BY <1>0, <3>1, <3>2, <3>3, <3>4 DEF DedentsInv, ParseTypeOK, TokType, PsType, Opened
    <3>7. OwnersInv'
      BY <1>0, <3>1, <3>2, <3>3, <3>4 DEF OwnersInv, ParseTypeOK, TokType, PsType, BlocksType
    <3>8. ErrorInv'
      BY <1>0, <3>1, <3>2, <3>3, <3>4 DEF ErrorInv, ParseTypeOK, PsType
    <3>9. QED
      BY <3>5, <3>6, <3>7, <3>8 DEF ParseInv
  <2>2. CASE /\ ps.at = "add"
             /\ AddsToken("E_DONE")
             /\ UNCHANGED tok
    <3>1. ps' = [at |-> "end", imply |-> ps.imply, started |-> ps.started, type |-> ps.type,
                 last |-> ps.type, open |-> Opened(ps.type, ps.open), str |-> FALSE,
                 tree |-> ps.tree + 1, n |-> ps.n, dropped |-> ps.dropped]
      BY <1>0, <2>2 DEF ParseTypeOK, PsType, AddsToken, Fails, Consumed
    <3>2. perr' = [error |-> "E_DONE", text |-> perr.text]
      BY <1>0, <2>2 DEF ParseTypeOK, PerrType, AddsToken, Fails, Consumed
    <3>3. blocks' = [strings |-> blocks.strings, encodings |-> blocks.encodings,
                     texts |-> blocks.texts]
      BY <1>0, <2>2 DEF ParseTypeOK, BlocksType, AddsToken, Fails, Consumed
    <3>4. /\ ps.at = "add" /\ tok' = tok
      BY <1>0, <2>2 DEF AddsToken
    <3>5. ParseTypeOK'
      <4>1. ps' \in PsType
        BY <1>0, <3>1, <3>2, <3>3, <3>4 DEF ParseTypeOK, PsType, Types, Opened
      <4>2. perr' \in PerrType
        BY <1>0, <3>1, <3>2, <3>3, <3>4 DEF ParseTypeOK, PerrType, ParseErrors
      <4>3. blocks' \in BlocksType
        BY <1>0, <3>1, <3>2, <3>3, <3>4 DEF ParseTypeOK, BlocksType
      <4>4. QED
        BY <1>0, <3>4, <4>1, <4>2, <4>3 DEF ParseTypeOK
    <3>6. DedentsInv'
      BY <1>0, <3>1, <3>2, <3>3, <3>4 DEF DedentsInv, ParseTypeOK, TokType, PsType, Opened
    <3>7. OwnersInv'
      BY <1>0, <3>1, <3>2, <3>3, <3>4 DEF OwnersInv, ParseTypeOK, TokType, PsType, BlocksType
    <3>8. ErrorInv'
      BY <1>0, <3>1, <3>2, <3>3, <3>4 DEF ErrorInv, ParseTypeOK, PsType
    <3>9. QED
      BY <3>5, <3>6, <3>7, <3>8 DEF ParseInv
  <2>3. ASSUME NEW error \in {"E_SYNTAX", "E_NOMEM"},
               ps.at = "add",
               AddsToken(error),
               UNCHANGED tok
        PROVE  ParseInv'
    <3>1. ps' = [at |-> "end", imply |-> ps.imply, started |-> ps.started, type |-> ps.type,
                 last |-> ps.type, open |-> Opened(ps.type, ps.open), str |-> FALSE,
                 tree |-> ps.tree, n |-> ps.n, dropped |-> ps.dropped]
      BY <1>0, <2>3 DEF ParseTypeOK, PsType, AddsToken, Fails, Consumed
    <3>2. perr' = [error |-> error, text |-> perr.text]
      BY <1>0, <2>3 DEF ParseTypeOK, PerrType, AddsToken, Fails, Consumed
    <3>3. blocks' = [strings |-> blocks.strings - 1, encodings |-> blocks.encodings,
                     texts |-> blocks.texts]
      BY <1>0, <2>3 DEF ParseTypeOK, BlocksType, AddsToken, Fails, Consumed
    <3>4. /\ ps.at = "add" /\ tok' = tok
      BY <1>0, <2>3 DEF AddsToken
    <3>5. ParseTypeOK'
      <4>1. ps' \in PsType
        BY <1>0, <3>1, <3>2, <3>3, <3>4 DEF ParseTypeOK, PsType, Types, Opened
      <4>2. perr' \in PerrType
        BY <1>0, <3>1, <3>2, <3>3, <3>4 DEF ParseTypeOK, PerrType, ParseErrors
      <4>3. blocks' \in BlocksType
        BY <1>0, <3>1, <3>2, <3>3, <3>4 DEF ParseTypeOK, BlocksType
      <4>4. QED
        BY <1>0, <3>4, <4>1, <4>2, <4>3 DEF ParseTypeOK
    <3>6. DedentsInv'
      BY <1>0, <3>1, <3>2, <3>3, <3>4 DEF DedentsInv, ParseTypeOK, TokType, PsType, Opened
    <3>7. OwnersInv'
      BY <1>0, <3>1, <3>2, <3>3, <3>4 DEF OwnersInv, ParseTypeOK, TokType, PsType, BlocksType
    <3>8. ErrorInv'
      BY <1>0, <3>1, <3>2, <3>3, <3>4 DEF ErrorInv, ParseTypeOK, PsType
    <3>9. QED
      BY <3>5, <3>6, <3>7, <3>8 DEF ParseInv
  <2>4. QED
    BY <1>6, <2>1, <2>2, <2>3 DEF AddToken, Opened, AddsToken
<1>7. CASE EndParse
  <2>1. CASE /\ ps.at = "end"
             /\ EndParse
             /\ perr.error = "E_DONE"
    <3>1. ps' = [at |-> "finish", imply |-> ps.imply, started |-> ps.started, type |-> ps.type,
                 last |-> ps.last, open |-> ps.open, str |-> ps.str, tree |-> ps.tree,
                 n |-> TRUE, dropped |-> ps.dropped]
      BY <1>0, <2>1 DEF ParseTypeOK, PsType, EndParse, Deleted
    <3>2. blocks' = [strings |-> blocks.strings, encodings |-> blocks.encodings,
                     texts |-> blocks.texts]
      BY <1>0, <2>1 DEF ParseTypeOK, BlocksType, EndParse, Deleted
    <3>3. /\ ps.at = "end" /\ perr.error = "E_DONE" /\ tok' = tok /\ perr' = perr
      BY <1>0, <2>1 DEF EndParse
    <3>4. ParseTypeOK'
      <4>1. ps' \in PsType
        BY <1>0, <3>1, <3>2, <3>3 DEF ParseTypeOK, PsType, Types
      <4>2. blocks' \in BlocksType
        BY <1>0, <3>1, <3>2, <3>3 DEF ParseTypeOK, BlocksType
      <4>3. QED
        BY <1>0, <3>3, <4>1, <4>2 DEF ParseTypeOK
    <3>5. DedentsInv'
      BY <1>0, <3>1, <3>2, <3>3 DEF DedentsInv, ParseTypeOK, TokType, PsType, Opened
    <3>6. OwnersInv'
      BY <1>0, <3>1, <3>2, <3>3 DEF OwnersInv, ParseTypeOK, TokType, PsType, BlocksType
    <3>7. ErrorInv'
      BY <1>0, <3>1, <3>2, <3>3 DEF ErrorInv, ParseTypeOK, PsType
    <3>8. QED
      BY <3>4, <3>5, <3>6, <3>7 DEF ParseInv
  <2>2. CASE /\ ps.at = "end"
             /\ EndParse
             /\ perr.error # "E_DONE"
    <3>1. ps' = [at |-> "finish", imply |-> ps.imply, started |-> ps.started, type |-> ps.type,
                 last |-> ps.last, open |-> ps.open, str |-> ps.str, tree |-> 0, n |-> FALSE,
                 dropped |-> ps.dropped]
      BY <1>0, <2>2 DEF ParseTypeOK, PsType, EndParse, Deleted
    <3>2. blocks' = [strings |-> blocks.strings - ps.tree, encodings |-> blocks.encodings,
                     texts |-> blocks.texts]
      BY <1>0, <2>2 DEF ParseTypeOK, BlocksType, EndParse, Deleted
    <3>3. /\ ps.at = "end" /\ perr.error # "E_DONE" /\ tok' = tok /\ perr' = perr
      BY <1>0, <2>2 DEF EndParse
    <3>4. ParseTypeOK'
      <4>1. ps' \in PsType
        BY <1>0, <3>1, <3>2, <3>3 DEF ParseTypeOK, PsType, Types
      <4>2. blocks' \in BlocksType
        BY <1>0, <3>1, <3>2, <3>3 DEF ParseTypeOK, BlocksType
      <4>3. QED
        BY <1>0, <3>3, <4>1, <4>2 DEF ParseTypeOK
    <3>5. DedentsInv'
      BY <1>0, <3>1, <3>2, <3>3 DEF DedentsInv, ParseTypeOK, TokType, PsType, Opened
    <3>6. OwnersInv'
      BY <1>0, <3>1, <3>2, <3>3 DEF OwnersInv, ParseTypeOK, TokType, PsType, BlocksType
    <3>7. ErrorInv'
      BY <1>0, <3>1, <3>2, <3>3 DEF ErrorInv, ParseTypeOK, PsType
    <3>8. QED
      BY <3>4, <3>5, <3>6, <3>7 DEF ParseInv
  <2>3. QED
    BY <1>7, <2>1, <2>2 DEF EndParse
<1>8. CASE Explain
  <2>1. ASSUME NEW error \in {perr.error, "E_EOF"}, NEW text \in BOOLEAN,
               ps.at = "finish",
               ~ps.n,
               perr' = [error |-> error, text |-> text],
               blocks' = [blocks EXCEPT !.texts = IF text THEN 1 ELSE 0],
               ps' = [ps EXCEPT !.at = "free"],
               UNCHANGED tok
        PROVE  ParseInv'
    <3>1. ps' = [at |-> "free", imply |-> ps.imply, started |-> ps.started, type |-> ps.type,
                 last |-> ps.last, open |-> ps.open, str |-> ps.str, tree |-> ps.tree,
                 n |-> ps.n, dropped |-> ps.dropped]
      BY <1>0, <2>1 DEF ParseTypeOK, PsType
    <3>2. perr' = [error |-> error, text |-> text]
      BY <1>0, <2>1 DEF ParseTypeOK, PerrType
    <3>3. blocks' = [strings |-> blocks.strings, encodings |-> blocks.encodings,
                     texts |-> (IF text THEN 1 ELSE 0)]
      BY <1>0, <2>1 DEF ParseTypeOK, BlocksType
    <3>4. /\ ps.at = "finish" /\ ~ps.n /\ tok' = tok
      BY <1>0, <2>1
    <3>5. ParseTypeOK'
      <4>1. ps' \in PsType
        BY <1>0, <3>1, <3>2, <3>3, <3>4 DEF ParseTypeOK, PsType, Types
      <4>2. perr' \in PerrType
        BY <1>0, <3>1, <3>2, <3>3, <3>4 DEF ParseTypeOK, PerrType, ParseErrors
      <4>3. blocks' \in BlocksType
        BY <1>0, <3>1, <3>2, <3>3, <3>4 DEF ParseTypeOK, BlocksType
      <4>4. QED
        BY <1>0, <3>4, <4>1, <4>2, <4>3 DEF ParseTypeOK
    <3>6. DedentsInv'
      BY <1>0, <3>1, <3>2, <3>3, <3>4 DEF DedentsInv, ParseTypeOK, TokType, PsType, Opened
    <3>7. OwnersInv'
      BY <1>0, <3>1, <3>2, <3>3, <3>4 DEF OwnersInv, ParseTypeOK, TokType, PsType, BlocksType
    <3>8. ErrorInv'
      BY <1>0, <3>1, <3>2, <3>3, <3>4 DEF ErrorInv, ParseTypeOK, PsType
    <3>9. QED
      BY <3>5, <3>6, <3>7, <3>8 DEF ParseInv
  <2>2. QED
    BY <1>8, <2>1 DEF Explain
<1>9. CASE AddEncoding
  <2>1. CASE /\ ps.at = "finish"
             /\ ps.n
             /\ ~tok.encoding
             /\ ps' = [ps EXCEPT !.at = "free"]
             /\ UNCHANGED <<tok, perr, blocks>>
    <3>1. ps' = [at |-> "free", imply |-> ps.imply, started |-> ps.started, type |-> ps.type,
                 last |-> ps.last, open |-> ps.open, str |-> ps.str, tree |-> ps.tree,
                 n |-> ps.n, dropped |-> ps.dropped]
      BY <1>0, <2>1 DEF ParseTypeOK, PsType
    <3>2. /\ ps.at = "finish" /\ tok' = tok /\ perr' = perr /\ blocks' = blocks
      BY <1>0, <2>1
    <3>3. ParseTypeOK'
      <4>1. ps' \in PsType
        BY <1>0, <3>1, <3>2 DEF ParseTypeOK, PsType, Types
      <4>2. QED
        BY <1>0, <3>2, <4>1 DEF ParseTypeOK
    <3>4. DedentsInv'
      BY <1>0, <3>1, <3>2 DEF DedentsInv, ParseTypeOK, TokType, PsType, Opened
    <3>5. OwnersInv'
      BY <1>0, <3>1, <3>2 DEF OwnersInv, ParseTypeOK, TokType, PsType, BlocksType
    <3>6. ErrorInv'
      BY <1>0, <3>1, <3>2 DEF ErrorInv, ParseTypeOK, PsType
    <3>7. QED
      BY <3>3, <3>4, <3>5, <3>6 DEF ParseInv
  <2>2. CASE /\ ps.at = "finish"
             /\ ps.n
             /\ tok.encoding
             /\ tok' = HandedOver(tok)
             /\ blocks' = [blocks EXCEPT !.strings = @ + 1, !.encodings = @ - 1]
             /\ ps' = [ps EXCEPT !.at = "free", !.tree = @ + 1]
             /\ UNCHANGED perr
    <3>1. ps' = [at |-> "free", imply |-> ps.imply, started |-> ps.started, type |-> ps.type,
                 last |-> ps.last, open |-> ps.open, str |-> ps.str, tree |-> ps.tree + 1,
                 n |-> ps.n, dropped |-> ps.dropped]
      BY <1>0, <2>2 DEF ParseTypeOK, PsType, HandedOver
    <3>2. tok' = [live |-> tok.live, read |-> tok.read, eof |-> tok.eof, indent |-> tok.indent,
                  pendin |-> tok.pendin, last |-> tok.last, encoding |-> FALSE]
      BY <1>0, <2>2 DEF ParseTypeOK, TokType, HandedOver
    <3>3. blocks' = [strings |-> blocks.strings + 1, encodings |-> blocks.encodings - 1,
                     texts |-> blocks.texts]
      BY <1>0, <2>2 DEF ParseTypeOK, BlocksType, HandedOver
    <3>4. /\ ps.at = "finish" /\ ps.n /\ tok.encoding /\ perr' = perr
      BY <1>0, <2>2
    <3>5. ParseTypeOK'
      <4>1. ps' \in PsType
        BY <1>0, <3>1, <3>2, <3>3, <3>4 DEF ParseTypeOK, PsType, Types
      <4>2. tok' \in TokType
        BY <1>0, <3>1, <3>2, <3>3, <3>4 DEF ParseTypeOK, TokType, Types
      <4>3. blocks' \in BlocksType
        BY <1>0, <3>1, <3>2, <3>3, <3>4 DEF ParseTypeOK, BlocksType
      <4>4. QED
        BY <1>0, <3>4, <4>1, <4>2, <4>3 DEF ParseTypeOK
    <3>6. DedentsInv'
      BY <1>0, <3>1, <3>2, <3>3, <3>4 DEF DedentsInv, ParseTypeOK, TokType, PsType, Opened
    <3>7. OwnersInv'
      BY <1>0, <3>1, <3>2, <3>3, <3>4 DEF OwnersInv, ParseTypeOK, TokType, PsType, BlocksType
    <3>8. ErrorInv'
      BY <1>0, <3>1, <3>2, <3>3, <3>4 DEF ErrorInv, ParseTypeOK, PsType
    <3>9. QED
      BY <3>5, <3>6, <3>7, <3>8 DEF ParseInv
  <2>3. CASE /\ ps.at = "finish"
             /\ ps.n
             /\ tok.encoding
             /\ Fails("E_NOMEM")
             /\ ps' = [ps EXCEPT !.at = "free", !.n = FALSE, !.tree = 0, !.dropped = TRUE]
             /\ UNCHANGED <<tok, blocks>>
    <3>1. ps' = [at |-> "free", imply |-> ps.imply, started |-> ps.started, type |-> ps.type,
                 last |-> ps.last, open |-> ps.open, str |-> ps.str, tree |-> 0, n |-> FALSE,
                 dropped |-> TRUE]
      BY <1>0, <2>3 DEF ParseTypeOK, PsType, Fails
    <3>2. perr' = [error |-> "E_NOMEM", text |-> perr.text]
      BY <1>0, <2>3 DEF ParseTypeOK, PerrType, Fails
    <3>3. /\ ps.at = "finish" /\ tok' = tok /\ blocks' = blocks
      BY <1>0, <2>3
    <3>4. ParseTypeOK'
      <4>1. ps' \in PsType
        BY <1>0, <3>1, <3>2, <3>3 DEF ParseTypeOK, PsType, Types
      <4>2. perr' \in PerrType
        BY <1>0, <3>1, <3>2, <3>3 DEF ParseTypeOK, PerrType, ParseErrors
      <4>3. QED
        BY <1>0, <3>3, <4>1, <4>2 DEF ParseTypeOK
    <3>5. DedentsInv'
      BY <1>0, <3>1, <3>2, <3>3 DEF DedentsInv, ParseTypeOK, TokType, PsType, Opened
    <3>6. OwnersInv'
      BY <1>0, <3>1, <3>2, <3>3 DEF OwnersInv, ParseTypeOK, TokType, PsType, BlocksType
    <3>7. ErrorInv'
      BY <1>0, <3>1, <3>2, <3>3 DEF ErrorInv, ParseTypeOK, PsType
    <3>8. QED
      BY <3>4, <3>5, <3>6, <3>7 DEF ParseInv
  <2>4. QED
    BY <1>9, <2>1, <2>2, <2>3 DEF AddEncoding
<1>10. CASE FreeTokenizer
  <2>1. CASE /\ FreeTokenizer
    <3>1. ps' = [at |-> "returned", imply |-> ps.imply, started |-> ps.started, type |-> ps.type,
                 last |-> ps.last, open |-> ps.open, str |-> ps.str, tree |-> ps.tree,
                 n |-> ps.n, dropped |-> ps.dropped]
      BY <1>0, <2>1 DEF ParseTypeOK, PsType, FreeTokenizer, PyTokenizer_Free, NoTok
    <3>2. tok' = [live |-> FALSE, read |-> 0, eof |-> FALSE, indent |-> 0, pendin |-> 0,
                  last |-> "none", encoding |-> FALSE]
      BY <1>0, <2>1 DEF ParseTypeOK, TokType, FreeTokenizer, PyTokenizer_Free, NoTok
    <3>3. blocks' = [strings |-> blocks.strings,
                     encodings |-> (IF tok.encoding THEN blocks.encodings - 1 ELSE blocks.encodings),
                     texts |-> blocks.texts]
      BY <1>0, <2>1 DEF ParseTypeOK, BlocksType, FreeTokenizer, PyTokenizer_Free, NoTok
    <3>4. /\ ps.at = "free" /\ perr' = perr
      BY <1>0, <2>1 DEF FreeTokenizer
    <3>5. ParseTypeOK'
      <4>1. ps' \in PsType
        BY <1>0, <3>1, <3>2, <3>3, <3>4 DEF ParseTypeOK, PsType, Types
      <4>2. tok' \in TokType
        BY <1>0, <3>1, <3>2, <3>3, <3>4 DEF ParseTypeOK, TokType, Types
      <4>3. blocks' \in BlocksType
        BY <1>0, <3>1, <3>2, <3>3, <3>4 DEF ParseTypeOK, BlocksType
      <4>4. QED
        BY <1>0, <3>4, <4>1, <4>2, <4>3 DEF ParseTypeOK
    <3>6. DedentsInv'
      BY <1>0, <3>1, <3>2, <3>3, <3>4 DEF DedentsInv, ParseTypeOK, TokType, PsType, Opened
    <3>7. OwnersInv'
      BY <1>0, <3>1, <3>2, <3>3, <3>4 DEF OwnersInv, ParseTypeOK, TokType, PsType, BlocksType
    <3>8. ErrorInv'
      BY <1>0, <3>1, <3>2, <3>3, <3>4 DEF ErrorInv, ParseTypeOK, PsType
    <3>9. QED
      BY <3>5, <3>6, <3>7, <3>8 DEF ParseInv
  <2>2. QED
    BY <1>10, <2>1 DEF FreeTokenizer
<1>11. CASE UNCHANGED parseVars
  BY <1>0, <1>11 DEF parseVars, ParseInv, ParseTypeOK, DedentsInv, OwnersInv, ErrorInv
<1>12. QED
  BY <1>1, <1>2, <1>3, <1>4, <1>5, <1>6, <1>7, <1>8, <1>9, <1>10, <1>11 DEF ParseNext

LEMMA ParseInvTree == ParseInv => TreeWhole
  BY DEF ParseInv, ParseTypeOK, PsType, DedentsInv, OwnersInv, ErrorInv, TreeWhole, StringsOwned,
         EndComplete, ErrorSaysWhy

-----------------------------------------------------------------------------
(* The top level.                                                          *)

\* Between the calls that take it and give it back there is an arena; a run
\* of a .pyc has none.
ArenaInv ==
  /\ at \in {"parse", "lookup"} => arenas = 1
  /\ at \notin {"parse", "lookup", "evaluate"} => arenas = 0

PromptsInv ==
  /\ call.kind # "prompt" => prompts = 0
  /\ at \notin {"arena", "parse"} => prompts = 0
  /\ at \in {"prompts", "lookup"} => call.kind = "prompt"

\* The file is open until it is read, then closed if it is to be, and that of
\* the loop when it ends.
FileInv ==
  /\ at = "main" => call.kind \in {"file", "string"} /\ ~call.set
  /\ at \in {"open", "pyc"} => call.kind = "file"
  /\ at \in {"succeeded", "failed"} => call.kind # "prompt"
  /\ fp # "twice"
  /\ call.kind \in {"none", "string"} => fp = "closed"
  /\ call.kind = "prompt" =>
       /\ stopped = "none"
       /\ fp = IF at = "idle" /\ call.closeit THEN "closed" ELSE "open"
  /\ call.kind = "file" =>
       /\ at \in {"main", "open", "arena", "parse"} => fp = "open" /\ stopped = "none"
       /\ at \notin {"main", "open", "arena", "parse"} =>
            fp = IF call.closeit /\ stopped = "none" THEN "closed" ELSE "open"

\* Where no exception is on its way to be printed, one that is set was left to
\* the caller, or a message was written.
ShownInv ==
  /\ err = "none" <=> setBy = "none"
  /\ at # "print" => setBy \in LeftToCaller \cup {"none", "written"}
  /\ at = "print" => err # "none"
  /\ vanished \subseteq LeftToCaller \cup {"stderr"}
  /\ at = "exit" => ~call.inspect

TopInv == TopTypeOK /\ ArenaInv /\ PromptsInv /\ FileInv /\ ShownInv

LEMMA TopInitInv == TopInit => TopInv
<1> SUFFICES ASSUME TopInit PROVE TopInv
  OBVIOUS
<1>1. call = [kind |-> "none", closeit |-> FALSE, set |-> FALSE, inspect |-> FALSE]
  BY DEF TopInit, NoCall
<1>2. TopTypeOK
  <2>1. call \in [kind : {"none", "prompt", "file", "string"},
                  closeit : BOOLEAN, set : BOOLEAN, inspect : BOOLEAN]
    BY <1>1
  <2>2. dunder \in BOOLEAN
    BY ZenonT(60) DEF TopInit
  <2>3. QED
    BY <2>1, <2>2 DEF TopInit, TopTypeOK, Errors
<1>3. ArenaInv /\ PromptsInv /\ FileInv /\ ShownInv
  BY <1>1 DEF TopInit, ArenaInv, PromptsInv, FileInv, ShownInv
<1>4. QED
  BY <1>2, <1>3 DEF TopInv

\* What becomes of the error indicator where nothing is printed.
LEMMA IndicatorStep ==
  ASSUME TopTypeOK, ShownInv, at # "print",
         \/ Keep
         \/ Clear
         \/ Message
         \/ \E e \in Exceptions \cup {"error"}, place \in Setters : Raise(e, place)
  PROVE  /\ err' \in Errors \cup {"error"}
         /\ setBy' \in Setters \cup {"none", "written"}
         /\ vanished' \subseteq Setters \cup {"stderr"}
         /\ vanished' \subseteq LeftToCaller \cup {"stderr"}
         /\ err' = "none" <=> setBy' = "none"
<1>1. Unwritten \subseteq LeftToCaller /\ LeftToCaller \subseteq Setters
  BY DEF ShownInv, Unwritten, LeftToCaller, Setters
<1>2. CASE Keep
  BY <1>2 DEF TopTypeOK, ShownInv, Keep
<1>3. CASE Clear
  BY <1>1, <1>3 DEF TopTypeOK, ShownInv, Clear, Raise, Errors
<1>4. CASE Message
  BY <1>1, <1>4 DEF TopTypeOK, ShownInv, Message
<1>5. ASSUME NEW e \in Exceptions \cup {"error"}, NEW place \in Setters, Raise(e, place)
      PROVE  /\ err' \in Errors \cup {"error"}
             /\ setBy' \in Setters \cup {"none", "written"}
             /\ vanished' \subseteq Setters \cup {"stderr"}
             /\ vanished' \subseteq LeftToCaller \cup {"stderr"}
             /\ err' = "none" <=> setBy' = "none"
  BY <1>1, <1>5, TopLevelAssumption DEF TopTypeOK, ShownInv, Raise, Errors, Setters
<1>6. QED
  BY <1>2, <1>3, <1>4, <1>5

\* The type of the error indicator is what the step before says of it.
LEMMA TopTypeStep ==
  ASSUME TopTypeOK,
         /\ err' \in Errors \cup {"error"}
         /\ setBy' \in Setters \cup {"none", "written"}
         /\ vanished' \subseteq Setters \cup {"stderr"},
         at' \in {"idle", "exit", "main", "open", "pyc", "prompts", "arena", "parse",
                  "lookup", "evaluate", "print", "succeeded", "failed"},
         call' = call \/ call' = [call EXCEPT !.set = TRUE],
         stopped' \in {"none", "main", "file", "loader", "arena"},
         dunder' \in BOOLEAN, arenas' \in 0 .. 1, prompts' \in 0 .. 3,
         fp' \in {"open", "closed", "twice"}
  PROVE  TopTypeOK'
<1>1. call' \in [kind : {"none", "prompt", "file", "string"},
                 closeit : BOOLEAN, set : BOOLEAN, inspect : BOOLEAN]
  BY DEF TopTypeOK
<1>2. QED
  BY <1>1 DEF TopTypeOK

LEMMA TopNextInv == TopInv /\ [TopNext]_topVars => TopInv'
<1> SUFFICES ASSUME TopInv, [TopNext]_topVars PROVE TopInv'
  OBVIOUS
<1>0. TopTypeOK /\ ArenaInv /\ PromptsInv /\ FileInv /\ ShownInv
  BY DEF TopInv
<1>01. err = "none" <=> setBy = "none"
  BY <1>0 DEF ShownInv
<1>1. ASSUME NEW kind \in {"prompt", "file", "string"}, NEW closeit \in BOOLEAN,
             NEW inspect \in BOOLEAN, Call(kind, closeit, inspect)
      PROVE  TopInv'
  <2>1. call' = [kind |-> kind, closeit |-> closeit, set |-> FALSE, inspect |-> inspect]
    BY <1>1 DEF Call, NoCall
  <2>2. /\ at = "idle" /\ vanished' = {} /\ stopped' = "none"
        /\ fp' = (IF kind = "string" THEN "closed" ELSE "open")
        /\ at' = (IF kind = "prompt" THEN "prompts" ELSE "main")
        /\ UNCHANGED <<err, setBy, arenas, prompts, dunder>>
    BY <1>1 DEF Call
  <2>3. TopTypeOK'
    <3>1. call' \in [kind : {"none", "prompt", "file", "string"},
                     closeit : BOOLEAN, set : BOOLEAN, inspect : BOOLEAN]
      BY <2>1
    <3>2. dunder' \in BOOLEAN
      BY <1>0, <2>2, ZenonT(60) DEF TopTypeOK
    <3>3. fp' \in {"open", "closed", "twice"} /\ at' \in {"prompts", "main"}
      BY <2>2
    <3>4. QED
      BY <1>0, <2>2, <3>1, <3>2, <3>3 DEF TopTypeOK
  <2>4. ArenaInv' /\ PromptsInv'
    BY <1>0, <2>1, <2>2 DEF ArenaInv, PromptsInv
  <2>5. FileInv' /\ ShownInv'
    BY <1>0, <2>1, <2>2 DEF FileInv, ShownInv
  <2>6. QED
    BY <2>3, <2>4, <2>5 DEF TopInv
<1>2. CASE FindMain
  <2>1. /\ at # "print"
        /\ \/ Keep \/ Clear \/ Message
           \/ \E e \in Exceptions \cup {"error"}, place \in Setters : Raise(e, place)
    BY <1>2 DEF FindMain, Setters
  <2>2. /\ err' \in Errors \cup {"error"}
        /\ setBy' \in Setters \cup {"none", "written"}
        /\ vanished' \subseteq Setters \cup {"stderr"}
        /\ vanished' \subseteq LeftToCaller \cup {"stderr"}
        /\ err' = "none" <=> setBy' = "none"
    BY <1>0, <2>1, IndicatorStep, Zenon
  <2>3. TopTypeOK'
    BY <1>0, <1>2, <2>2, TopTypeStep DEF TopTypeOK, ArenaInv, PromptsInv, FileInv, FindMain
  <2>4. ArenaInv' /\ PromptsInv'
    BY <1>0, <1>2 DEF TopTypeOK, ArenaInv, PromptsInv, FileInv, FindMain
  <2>5. FileInv'
    BY <1>0, <1>2 DEF TopTypeOK, FileInv, PromptsInv, FindMain
  <2>6. ShownInv'
    BY <1>0, <1>2, <2>2
       DEF ShownInv, PromptsInv, FileInv, LeftToCaller, Keep, Raise, Clear, Message,
           FindMain
  <2>7. QED
    BY <2>3, <2>4, <2>5, <2>6 DEF TopInv
<1>3. CASE OpenFile
  <2>1. /\ at # "print"
        /\ \/ Keep \/ Clear \/ Message
           \/ \E e \in Exceptions \cup {"error"}, place \in Setters : Raise(e, place)
    BY <1>3 DEF OpenFile, Closed, Setters
  <2>2. /\ err' \in Errors \cup {"error"}
        /\ setBy' \in Setters \cup {"none", "written"}
        /\ vanished' \subseteq Setters \cup {"stderr"}
        /\ vanished' \subseteq LeftToCaller \cup {"stderr"}
        /\ err' = "none" <=> setBy' = "none"
    BY <1>0, <2>1, IndicatorStep, Zenon
  <2>3. TopTypeOK'
    BY <1>0, <1>3, <2>2, TopTypeStep
       DEF TopTypeOK, ArenaInv, PromptsInv, FileInv, OpenFile, Closed
  <2>4. ArenaInv' /\ PromptsInv'
    BY <1>0, <1>3 DEF TopTypeOK, ArenaInv, PromptsInv, FileInv, OpenFile, Closed
  <2>5. FileInv'
    BY <1>0, <1>3 DEF TopTypeOK, FileInv, PromptsInv, OpenFile, Closed
  <2>6. ShownInv'
    BY <1>0, <1>3, <2>2
       DEF ShownInv, PromptsInv, FileInv, LeftToCaller, Keep, Raise, Clear, Message,
           OpenFile, Closed
  <2>7. QED
    BY <2>3, <2>4, <2>5, <2>6 DEF TopInv
<1>4. CASE ReadPyc
  <2>1. /\ at # "print"
        /\ \/ Keep \/ Clear \/ Message
           \/ \E e \in Exceptions \cup {"error"}, place \in Setters : Raise(e, place)
    BY <1>4 DEF ReadPyc, Setters
  <2>2. /\ err' \in Errors \cup {"error"}
        /\ setBy' \in Setters \cup {"none", "written"}
        /\ vanished' \subseteq Setters \cup {"stderr"}
        /\ vanished' \subseteq LeftToCaller \cup {"stderr"}
        /\ err' = "none" <=> setBy' = "none"
    BY <1>0, <2>1, IndicatorStep, Zenon
  <2>3. TopTypeOK'
    BY <1>0, <1>4, <2>2, TopTypeStep DEF TopTypeOK, ArenaInv, PromptsInv, FileInv, ReadPyc
  <2>4. ArenaInv' /\ PromptsInv'
    BY <1>0, <1>4 DEF TopTypeOK, ArenaInv, PromptsInv, FileInv, ReadPyc
  <2>5. FileInv'
    BY <1>0, <1>4 DEF TopTypeOK, FileInv, PromptsInv, ReadPyc
  <2>6. ShownInv'
    BY <1>0, <1>4, <2>2
       DEF ShownInv, PromptsInv, FileInv, LeftToCaller, Keep, Raise, Clear, Message,
           ReadPyc
  <2>7. QED
    BY <2>3, <2>4, <2>5, <2>6 DEF TopInv
<1>5. CASE ReadPrompts
  <2>1. /\ at # "print"
        /\ \/ Keep \/ Clear \/ Message
           \/ \E e \in Exceptions \cup {"error"}, place \in Setters : Raise(e, place)
    BY <1>5 DEF ReadPrompts, Setters
  <2>2. /\ err' \in Errors \cup {"error"}
        /\ setBy' \in Setters \cup {"none", "written"}
        /\ vanished' \subseteq Setters \cup {"stderr"}
        /\ vanished' \subseteq LeftToCaller \cup {"stderr"}
        /\ err' = "none" <=> setBy' = "none"
    BY <1>0, <2>1, IndicatorStep, Zenon
  <2>3. TopTypeOK'
    BY <1>0, <1>5, <2>2, TopTypeStep
       DEF TopTypeOK, ArenaInv, PromptsInv, FileInv, ReadPrompts
  <2>4. ArenaInv' /\ PromptsInv'
    BY <1>0, <1>5 DEF TopTypeOK, ArenaInv, PromptsInv, FileInv, ReadPrompts
  <2>5. FileInv'
    BY <1>0, <1>5 DEF TopTypeOK, FileInv, PromptsInv, ReadPrompts
  <2>6. ShownInv'
    BY <1>0, <1>5, <2>2
       DEF ShownInv, PromptsInv, FileInv, LeftToCaller, Keep, Raise, Clear, Message,
           ReadPrompts
  <2>7. QED
    BY <2>3, <2>4, <2>5, <2>6 DEF TopInv
<1>6. CASE NewArena
  <2>1. /\ at # "print"
        /\ \/ Keep \/ Clear \/ Message
           \/ \E e \in Exceptions \cup {"error"}, place \in Setters : Raise(e, place)
    BY <1>6 DEF NewArena, After, Setters
  <2>2. /\ err' \in Errors \cup {"error"}
        /\ setBy' \in Setters \cup {"none", "written"}
        /\ vanished' \subseteq Setters \cup {"stderr"}
        /\ vanished' \subseteq LeftToCaller \cup {"stderr"}
        /\ err' = "none" <=> setBy' = "none"
    BY <1>0, <2>1, IndicatorStep, Zenon
  <2>3. TopTypeOK'
    BY <1>0, <1>6, <2>2, TopTypeStep
       DEF TopTypeOK, ArenaInv, PromptsInv, FileInv, NewArena, After
  <2>4. ArenaInv' /\ PromptsInv'
    BY <1>0, <1>6 DEF TopTypeOK, ArenaInv, PromptsInv, FileInv, NewArena, After
  <2>5. FileInv'
    BY <1>0, <1>6 DEF TopTypeOK, FileInv, PromptsInv, NewArena, After
  <2>6. ShownInv'
    BY <1>0, <1>6, <2>2
       DEF ShownInv, PromptsInv, FileInv, LeftToCaller, Keep, Raise, Clear, Message,
           NewArena, After
  <2>7. QED
    BY <2>3, <2>4, <2>5, <2>6 DEF TopInv
<1>7. CASE ParseCommand
  <2>1. /\ at # "print"
        /\ \/ Keep \/ Clear \/ Message
           \/ \E e \in Exceptions \cup {"error"}, place \in Setters : Raise(e, place)
    BY <1>7 DEF ParseCommand, ParserErrors, ErrInput, Closed, Setters
  <2>2. /\ err' \in Errors \cup {"error"}
        /\ setBy' \in Setters \cup {"none", "written"}
        /\ vanished' \subseteq Setters \cup {"stderr"}
        /\ vanished' \subseteq LeftToCaller \cup {"stderr"}
        /\ err' = "none" <=> setBy' = "none"
    BY <1>0, <2>1, IndicatorStep, Zenon
  <2>3. TopTypeOK'
    BY <1>0, <1>7, <2>2, TopTypeStep
       DEF TopTypeOK, ArenaInv, PromptsInv, FileInv, ParseCommand, ParserErrors,
           ErrInput, Closed
  <2>4. ArenaInv' /\ PromptsInv'
    BY <1>0, <1>7
       DEF TopTypeOK, ArenaInv, PromptsInv, FileInv, ParseCommand, ParserErrors,
           ErrInput, Closed
  <2>5. FileInv'
    BY <1>0, <1>7
       DEF TopTypeOK, FileInv, PromptsInv, ParseCommand, ParserErrors, ErrInput, Closed
  <2>6. ShownInv'
    BY <1>0, <1>7, <2>2
       DEF ShownInv, PromptsInv, FileInv, LeftToCaller, Keep, Raise, Clear, Message,
           ParseCommand, ParserErrors, ErrInput, Closed
  <2>7. QED
    BY <2>3, <2>4, <2>5, <2>6 DEF TopInv
<1>8. CASE ParseFile
  <2>1. /\ at # "print"
        /\ \/ Keep \/ Clear \/ Message
           \/ \E e \in Exceptions \cup {"error"}, place \in Setters : Raise(e, place)
    BY <1>8 DEF ParseFile, ParsesOrNot, ParserErrors, ErrInput, Closed, Setters
  <2>2. /\ err' \in Errors \cup {"error"}
        /\ setBy' \in Setters \cup {"none", "written"}
        /\ vanished' \subseteq Setters \cup {"stderr"}
        /\ vanished' \subseteq LeftToCaller \cup {"stderr"}
        /\ err' = "none" <=> setBy' = "none"
    BY <1>0, <2>1, IndicatorStep, Zenon
  <2>3. TopTypeOK'
    BY <1>0, <1>8, <2>2, TopTypeStep
       DEF TopTypeOK, ArenaInv, PromptsInv, FileInv, ParseFile, ParsesOrNot,
           ParserErrors, ErrInput, Closed
  <2>4. ArenaInv' /\ PromptsInv'
    BY <1>0, <1>8
       DEF TopTypeOK, ArenaInv, PromptsInv, FileInv, ParseFile, ParsesOrNot,
           ParserErrors, ErrInput, Closed
  <2>5. FileInv'
    BY <1>0, <1>8
       DEF TopTypeOK, FileInv, PromptsInv, ParseFile, ParsesOrNot, ParserErrors,
           ErrInput, Closed
  <2>6. ShownInv'
    BY <1>0, <1>8, <2>2
       DEF ShownInv, PromptsInv, FileInv, LeftToCaller, Keep, Raise, Clear, Message,
           ParseFile, ParsesOrNot, ParserErrors, ErrInput, Closed
  <2>7. QED
    BY <2>3, <2>4, <2>5, <2>6 DEF TopInv
<1>9. CASE ParseString
  <2>1. /\ at # "print"
        /\ \/ Keep \/ Clear \/ Message
           \/ \E e \in Exceptions \cup {"error"}, place \in Setters : Raise(e, place)
    BY <1>9 DEF ParseString, ParsesOrNot, ParserErrors, ErrInput, Setters
  <2>2. /\ err' \in Errors \cup {"error"}
        /\ setBy' \in Setters \cup {"none", "written"}
        /\ vanished' \subseteq Setters \cup {"stderr"}
        /\ vanished' \subseteq LeftToCaller \cup {"stderr"}
        /\ err' = "none" <=> setBy' = "none"
    BY <1>0, <2>1, IndicatorStep, Zenon
  <2>3. TopTypeOK'
    BY <1>0, <1>9, <2>2, TopTypeStep
       DEF TopTypeOK, ArenaInv, PromptsInv, FileInv, ParseString, ParsesOrNot,
           ParserErrors, ErrInput
  <2>4. ArenaInv' /\ PromptsInv'
    BY <1>0, <1>9
       DEF TopTypeOK, ArenaInv, PromptsInv, FileInv, ParseString, ParsesOrNot,
           ParserErrors, ErrInput
  <2>5. FileInv'
    BY <1>0, <1>9
       DEF TopTypeOK, FileInv, PromptsInv, ParseString, ParsesOrNot, ParserErrors,
           ErrInput
  <2>6. ShownInv'
    BY <1>0, <1>9, <2>2
       DEF ShownInv, PromptsInv, FileInv, LeftToCaller, Keep, Raise, Clear, Message,
           ParseString, ParsesOrNot, ParserErrors, ErrInput
  <2>7. QED
    BY <2>3, <2>4, <2>5, <2>6 DEF TopInv
<1>10. CASE LookUpMain
  <2>1. /\ at # "print"
        /\ \/ Keep \/ Clear \/ Message
           \/ \E e \in Exceptions \cup {"error"}, place \in Setters : Raise(e, place)
    BY <1>10 DEF LookUpMain, Setters
  <2>2. /\ err' \in Errors \cup {"error"}
        /\ setBy' \in Setters \cup {"none", "written"}
        /\ vanished' \subseteq Setters \cup {"stderr"}
        /\ vanished' \subseteq LeftToCaller \cup {"stderr"}
        /\ err' = "none" <=> setBy' = "none"
    BY <1>0, <2>1, IndicatorStep, Zenon
  <2>3. TopTypeOK'
    BY <1>0, <1>10, <2>2, TopTypeStep
       DEF TopTypeOK, ArenaInv, PromptsInv, FileInv, LookUpMain
  <2>4. ArenaInv' /\ PromptsInv'
    BY <1>0, <1>10 DEF TopTypeOK, ArenaInv, PromptsInv, FileInv, LookUpMain
  <2>5. FileInv'
    BY <1>0, <1>10 DEF TopTypeOK, FileInv, PromptsInv, LookUpMain
  <2>6. ShownInv'
    BY <1>0, <1>10, <2>2
       DEF ShownInv, PromptsInv, FileInv, LeftToCaller, Keep, Raise, Clear, Message,
           LookUpMain
  <2>7. QED
    BY <2>3, <2>4, <2>5, <2>6 DEF TopInv
<1>11. CASE Evaluate
  <2>1. /\ at # "print"
        /\ \/ Keep \/ Clear
           \/ \E e \in Exceptions \cup {"error"}, place \in Setters : Raise(e, place)
    BY <1>11 DEF Evaluate, Flushed, After, Setters, Keep
  <2>2. /\ err' \in Errors \cup {"error"}
        /\ setBy' \in Setters \cup {"none", "written"}
        /\ vanished' \subseteq Setters \cup {"stderr"}
        /\ vanished' \subseteq LeftToCaller \cup {"stderr"}
        /\ err' = "none" <=> setBy' = "none"
    BY <1>0, <2>1, IndicatorStep, Zenon
  <2>3. TopTypeOK'
    <3>1. /\ at' \in {"print", "prompts", "succeeded"}
          /\ UNCHANGED <<call, stopped, prompts, fp>>
      BY <1>11 DEF Evaluate, After
    <3>2. arenas' \in 0 .. 1
      BY <1>0, <1>11 DEF Evaluate, TopTypeOK
    <3>3. dunder' \in BOOLEAN
      BY <1>0, <1>11, ZenonT(60) DEF Evaluate, TopTypeOK
    <3>4. QED
      BY <1>0, <2>2, <3>1, <3>2, <3>3, TopTypeStep DEF TopTypeOK
  <2>4. ArenaInv' /\ PromptsInv'
    BY <1>0, <1>11 DEF TopTypeOK, ArenaInv, PromptsInv, FileInv, Evaluate, After, Flushed
  <2>5. FileInv'
    BY <1>0, <1>11 DEF TopTypeOK, FileInv, PromptsInv, Evaluate, After, Flushed
  <2>6. ShownInv'
    BY <1>0, <1>11, <2>2
       DEF ShownInv, PromptsInv, FileInv, LeftToCaller, Keep, Raise, Clear, Message,
           Evaluate, After, Flushed
  <2>7. QED
    BY <2>3, <2>4, <2>5, <2>6 DEF TopInv
<1>12. CASE PrintEx
  <2>1. /\ err' = "none" /\ setBy' = "none"
        /\ vanished' \subseteq vanished \cup {"stderr"}
        /\ vanished' \subseteq LeftToCaller \cup {"stderr"}
        /\ LeftToCaller \subseteq Setters
    BY <1>0, <1>12
       DEF ShownInv, PrintEx, Shown, Clear, Raise, Unwritten, LeftToCaller, Setters
  <2>2. TopTypeOK'
    <3>1. /\ at' \in {"exit", "prompts", "failed"}
          /\ UNCHANGED <<call, stopped, arenas, prompts, fp, dunder>>
      BY <1>12 DEF PrintEx, After
    <3>2. /\ err' \in Errors \cup {"error"}
          /\ setBy' \in Setters \cup {"none", "written"}
          /\ vanished' \subseteq Setters \cup {"stderr"}
      BY <1>0, <2>1 DEF TopTypeOK, Errors
    <3>3. QED
      BY <1>0, <3>1, <3>2, TopTypeStep DEF TopTypeOK
  <2>3. ArenaInv' /\ PromptsInv'
    BY <1>0, <1>12 DEF TopTypeOK, ArenaInv, PromptsInv, FileInv, PrintEx, After, Leaves
  <2>4. FileInv'
    BY <1>0, <1>12
       DEF TopTypeOK, FileInv, PromptsInv, PrintEx, After, Leaves, Shown, Clear, Raise,
           Unwritten
  <2>5. ShownInv'
    BY <1>0, <1>12, <2>1
       DEF ShownInv, PromptsInv, FileInv, LeftToCaller, PrintEx, After, Leaves
  <2>6. QED
    BY <2>2, <2>3, <2>4, <2>5 DEF TopInv
<1>13. CASE Finish
  <2>1. /\ at # "print"
        /\ \/ Keep \/ Clear \/ Message
           \/ \E e \in Exceptions \cup {"error"}, place \in Setters : Raise(e, place)
    BY <1>13 DEF Finish, Setters
  <2>2. /\ err' \in Errors \cup {"error"}
        /\ setBy' \in Setters \cup {"none", "written"}
        /\ vanished' \subseteq Setters \cup {"stderr"}
        /\ vanished' \subseteq LeftToCaller \cup {"stderr"}
        /\ err' = "none" <=> setBy' = "none"
    BY <1>0, <2>1, IndicatorStep, Zenon
  <2>3. TopTypeOK'
    BY <1>0, <1>13, <2>2, TopTypeStep DEF TopTypeOK, ArenaInv, PromptsInv, FileInv, Finish
  <2>4. ArenaInv' /\ PromptsInv'
    BY <1>0, <1>13 DEF TopTypeOK, ArenaInv, PromptsInv, FileInv, Finish
  <2>5. FileInv'
    BY <1>0, <1>13 DEF TopTypeOK, FileInv, PromptsInv, Finish
  <2>6. ShownInv'
    BY <1>0, <1>13, <2>2
       DEF ShownInv, PromptsInv, FileInv, LeftToCaller, Keep, Raise, Clear, Message,
           Finish
  <2>7. QED
    BY <2>3, <2>4, <2>5, <2>6 DEF TopInv
<1>14. CASE UNCHANGED topVars
  <2>1. UNCHANGED <<at, call, err, setBy, vanished, stopped, arenas, prompts, fp, dunder>>
    BY <1>14 DEF topVars
  <2>2. QED
    BY <1>0, <2>1 DEF TopInv, TopTypeOK, ArenaInv, PromptsInv, FileInv, ShownInv, Errors
<1>15. QED
  BY <1>1, <1>2, <1>3, <1>4, <1>5, <1>6, <1>7, <1>8, <1>9, <1>10, <1>11, <1>12, <1>13, <1>14
     DEF TopNext, InteractiveLoop, RunString, RunFile

LEMMA TopInvReturns == TopInv => ResourcesReturned /\ ErrorKeptOrShown /\ InspectStays
  BY DEF TopInv, TopTypeOK, ArenaInv, PromptsInv, FileInv, ShownInv, ResourcesReturned,
         ErrorKeptOrShown, InspectStays

-----------------------------------------------------------------------------
(* The standard streams.                                                   *)

IoPlaces == {"imports", "iomod", "encoding", "fd", "none", "open", "raw", "name", "isatty",
             "wrap", "wrapped", "unwrapped", "mode", "mode_set", "return", "made", "error",
             "failed", "end", "returned"}

IoTypeOK ==
  /\ io \in [at : IoPlaces, file : Std, buffering : BOOLEAN, status : {0, -1}]
  /\ locals \subseteq Locals
  /\ owed \in [Locals -> Int]
  /\ sys \in [Std -> {"unset", "None", "stream"}]

\* A variable owes a reference while it is not NULL.
OwedInv == \A v \in Locals : owed[v] = IF v \in locals THEN 1 ELSE 0

\* Which variables are not NULL, by place: where an error may have come from
\* anywhere, any of those of create_stdio().
LocalsInv ==
  /\ "bimod" \in locals => io.at # "imports"
  /\ "iomod" \in locals => io.at \notin {"imports", "iomod"}
  /\ "encoding" \in locals => io.at \notin {"imports", "iomod", "encoding"}
  /\ "std" \in locals <=> io.at \in {"none", "made"}
  /\ io.at # "error" =>
       /\ "buf" \in locals <=>
            io.at \in {"raw", "name", "isatty", "wrap", "wrapped", "unwrapped"}
       /\ "raw" \in locals <=> io.at \in {"name", "isatty"}
       /\ "text" \in locals <=> io.at \in {"isatty", "mode_set"}
       /\ "stream" \in locals <=> io.at \in {"wrapped", "mode", "mode_set", "return"}
  /\ io.at = "returned" => locals = {}

Earlier(f, g) ==
  (f = "stdin" /\ g \in {"stdout", "stderr"}) \/ (f = "stdout" /\ g = "stderr")

\* The streams before the one that is made are set.
SysInv ==
  /\ io.at \notin {"end", "returned"} => \A f \in Std : sys[f] # "unset" <=> Earlier(f, io.file)
  /\ io.at = "end" => \A f \in Std : sys[f] # "unset"
  /\ io.at = "returned" => (io.status = 0 <=> \A f \in Std : sys[f] # "unset")

IoInv == IoTypeOK /\ OwedInv /\ LocalsInv /\ SysInv

\* A reference is taken for a variable that is NULL.
LEMMA GetsOwes ==
  ASSUME IoTypeOK, OwedInv, NEW v \in Locals, v \notin locals, Gets(v)
  PROVE  OwedInv' /\ locals' = locals \cup {v} /\ locals' \subseteq Locals /\ owed' \in [Locals -> Int]
<1>1. locals' = locals \cup {v} /\ owed' = [owed EXCEPT ![v] = owed[v] + 1]
  BY DEF Gets
<1>2. owed' \in [Locals -> Int] /\ locals' \subseteq Locals
  BY <1>1 DEF IoTypeOK
<1>3. \A u \in Locals : owed'[u] = IF u = v THEN owed[u] + 1 ELSE owed[u]
  BY <1>1 DEF IoTypeOK
<1>4. QED
  BY <1>1, <1>2, <1>3 DEF OwedInv

\* References are given back that variables have.
LEMMA GivesOwes ==
  ASSUME IoTypeOK, OwedInv, NEW vs, vs \subseteq locals, GivesBack(vs)
  PROVE  OwedInv' /\ locals' = locals \ vs /\ locals' \subseteq Locals /\ owed' \in [Locals -> Int]
<1>1. locals' = locals \ vs /\ owed' = [v \in Locals |-> IF v \in vs THEN owed[v] - 1 ELSE owed[v]]
  BY DEF GivesBack, Cleared
<1>2. \A v \in Locals : owed[v] \in Int
  BY DEF IoTypeOK
<1>3. owed' \in [Locals -> Int] /\ locals' \subseteq Locals
  BY <1>1, <1>2 DEF IoTypeOK
<1>4. QED
  BY <1>1, <1>2, <1>3 DEF OwedInv

LEMMA GoesIs ==
  ASSUME IoTypeOK, NEW to \in IoPlaces, Goes(to)
  PROVE  /\ io' = [at |-> to, file |-> io.file, buffering |-> io.buffering, status |-> io.status]
         /\ io' \in [at : IoPlaces, file : Std, buffering : BOOLEAN, status : {0, -1}]
<1>1. io' = [at |-> to, file |-> io.file, buffering |-> io.buffering, status |-> io.status]
  BY DEF Goes, IoTypeOK
<1>2. QED
  BY <1>1 DEF IoTypeOK

LEMMA IoInitInv == StreamInit => IoInv
<1> SUFFICES ASSUME StreamInit PROVE IoInv
  OBVIOUS
<1>1. /\ io = [at |-> "imports", file |-> "stdin", buffering |-> TRUE, status |-> 0]
      /\ locals = {} /\ owed = [v \in Locals |-> 0] /\ sys = [f \in Std |-> "unset"]
  BY DEF StreamInit
<1>2. IoTypeOK
  BY <1>1 DEF IoTypeOK, IoPlaces, Std
<1>3. OwedInv /\ LocalsInv
  BY <1>1 DEF OwedInv, LocalsInv
<1>4. SysInv
  BY <1>1 DEF SysInv, Earlier, Std
<1>5. QED
  BY <1>2, <1>3, <1>4 DEF IoInv

\* A variable is set, and the call goes on.
LEMMA IoGets ==
  ASSUME IoInv, NEW v \in Locals, v \notin locals, Gets(v), NEW to \in IoPlaces, Goes(to),
         UNCHANGED sys, LocalsInv', io.at \notin {"end", "returned"}, to \notin {"end", "returned"}
  PROVE  IoInv'
<1>1. IoTypeOK'
  BY GetsOwes, GoesIs DEF IoInv, IoTypeOK
<1>2. io'.at = to /\ io'.file = io.file
  BY GoesIs DEF IoInv
<1>3. SysInv'
  BY <1>2 DEF IoInv, SysInv
<1>4. QED
  BY <1>1, <1>3, GetsOwes DEF IoInv

\* Nothing changes but the place.
LEMMA IoKeeps ==
  ASSUME IoInv, Kept, NEW to \in IoPlaces, Goes(to),
         UNCHANGED sys, LocalsInv', io.at \notin {"end", "returned"}, to \notin {"end", "returned"}
  PROVE  IoInv'
<1>1. IoTypeOK'
  BY GoesIs DEF IoInv, IoTypeOK, Kept
<1>2. io'.at = to /\ io'.file = io.file
  BY GoesIs DEF IoInv
<1>3. SysInv'
  BY <1>2 DEF IoInv, SysInv
<1>4. OwedInv'
  BY DEF IoInv, OwedInv, Kept
<1>5. QED
  BY <1>1, <1>3, <1>4 DEF IoInv

\* Variables become NULL.
LEMMA IoGives ==
  ASSUME IoInv, NEW vs, vs \subseteq locals, GivesBack(vs), NEW to \in IoPlaces, Goes(to),
         UNCHANGED sys, LocalsInv', io.at \notin {"end", "returned"}, to \notin {"end", "returned"}
  PROVE  IoInv'
<1>1. IoTypeOK'
  BY GivesOwes, GoesIs DEF IoInv, IoTypeOK
<1>2. io'.at = to /\ io'.file = io.file
  BY GoesIs DEF IoInv
<1>3. SysInv'
  BY <1>2 DEF IoInv, SysInv
<1>4. QED
  BY <1>1, <1>3, GivesOwes DEF IoInv

LEMMA IoNextInv ==
  ASSUME IoInv,
         \/ ImportModules \/ CheckFd \/ OpenBuffer \/ NameBuffer \/ WrapBuffer
         \/ ReturnStream \/ CreateFails \/ SetStream \/ EndStdio
         \/ UNCHANGED <<io, locals, owed, sys>>
  PROVE  IoInv'
<1>0. IoInv /\ IoTypeOK /\ OwedInv /\ LocalsInv /\ SysInv
  BY DEF IoInv
<1>1. CASE ImportModules
  <2>1. ASSUME io.at = "imports", Gets("bimod"), Goes("iomod"), UNCHANGED sys PROVE IoInv'
    <3>1. "iomod" \in IoPlaces
      BY DEF IoPlaces
    <3>2. "bimod" \in Locals /\ "bimod" \notin locals
      BY <1>0, <2>1 DEF Locals, LocalsInv
    <3>3. io'.at = "iomod" /\ locals' = locals \cup {"bimod"}
      BY <1>0, <2>1, <3>1, <3>2, GetsOwes, GoesIs
    <3>4. LocalsInv'
      BY <1>0, <2>1, <3>3 DEF LocalsInv
    <3>5. QED
      BY <1>0, <2>1, <3>1, <3>2, <3>4, IoGets
  <2>2. ASSUME io.at = "imports", Kept, Goes("failed"), UNCHANGED sys PROVE IoInv'
    <3>1. "failed" \in IoPlaces
      BY DEF IoPlaces
    <3>2. Kept
      BY <2>2
    <3>3. io'.at = "failed" /\ locals' = locals
      BY <1>0, <2>2, <3>1, GoesIs DEF Kept
    <3>4. LocalsInv'
      BY <1>0, <2>2, <3>3 DEF LocalsInv
    <3>5. QED
      BY <1>0, <2>2, <3>1, <3>2, <3>4, IoKeeps
  <2>3. ASSUME io.at = "iomod", Gets("iomod"), Goes("encoding"), UNCHANGED sys PROVE IoInv'
    <3>1. "encoding" \in IoPlaces
      BY DEF IoPlaces
    <3>2. "iomod" \in Locals /\ "iomod" \notin locals
      BY <1>0, <2>3 DEF Locals, LocalsInv
    <3>3. io'.at = "encoding" /\ locals' = locals \cup {"iomod"}
      BY <1>0, <2>3, <3>1, <3>2, GetsOwes, GoesIs
    <3>4. LocalsInv'
      BY <1>0, <2>3, <3>3 DEF LocalsInv
    <3>5. QED
      BY <1>0, <2>3, <3>1, <3>2, <3>4, IoGets
  <2>4. ASSUME io.at = "iomod", Kept, Goes("failed"), UNCHANGED sys PROVE IoInv'
    <3>1. "failed" \in IoPlaces
      BY DEF IoPlaces
    <3>2. Kept
      BY <2>4
    <3>3. io'.at = "failed" /\ locals' = locals
      BY <1>0, <2>4, <3>1, GoesIs DEF Kept
    <3>4. LocalsInv'
      BY <1>0, <2>4, <3>3 DEF LocalsInv
    <3>5. QED
      BY <1>0, <2>4, <3>1, <3>2, <3>4, IoKeeps
  <2>5. ASSUME io.at = "encoding", Gets("encoding"), Goes("fd"), UNCHANGED sys PROVE IoInv'
    <3>1. "fd" \in IoPlaces
      BY DEF IoPlaces
    <3>2. "encoding" \in Locals /\ "encoding" \notin locals
      BY <1>0, <2>5 DEF Locals, LocalsInv
    <3>3. io'.at = "fd" /\ locals' = locals \cup {"encoding"}
      BY <1>0, <2>5, <3>1, <3>2, GetsOwes, GoesIs
    <3>4. LocalsInv'
      BY <1>0, <2>5, <3>3 DEF LocalsInv
    <3>5. QED
      BY <1>0, <2>5, <3>1, <3>2, <3>4, IoGets
  <2>6. ASSUME io.at = "encoding", Kept, Goes("fd"), UNCHANGED sys PROVE IoInv'
    <3>1. "fd" \in IoPlaces
      BY DEF IoPlaces
    <3>2. Kept
      BY <2>6
    <3>3. io'.at = "fd" /\ locals' = locals
      BY <1>0, <2>6, <3>1, GoesIs DEF Kept
    <3>4. LocalsInv'
      BY <1>0, <2>6, <3>3 DEF LocalsInv
    <3>5. QED
      BY <1>0, <2>6, <3>1, <3>2, <3>4, IoKeeps
  <2>7. ASSUME io.at = "encoding", Kept, Goes("failed"), UNCHANGED sys PROVE IoInv'
    <3>1. "failed" \in IoPlaces
      BY DEF IoPlaces
    <3>2. Kept
      BY <2>7
    <3>3. io'.at = "failed" /\ locals' = locals
      BY <1>0, <2>7, <3>1, GoesIs DEF Kept
    <3>4. LocalsInv'
      BY <1>0, <2>7, <3>3 DEF LocalsInv
    <3>5. QED
      BY <1>0, <2>7, <3>1, <3>2, <3>4, IoKeeps
  <2>8. QED
    BY <1>1, <2>1, <2>2, <2>3, <2>4, <2>5, <2>6, <2>7 DEF ImportModules, Makes
<1>2. CASE OpenBuffer
  <2>1. ASSUME io.at = "open", Gets("buf"), Goes("raw"), UNCHANGED sys PROVE IoInv'
    <3>1. "raw" \in IoPlaces
      BY DEF IoPlaces
    <3>2. "buf" \in Locals /\ "buf" \notin locals
      BY <1>0, <2>1 DEF Locals, LocalsInv
    <3>3. io'.at = "raw" /\ locals' = locals \cup {"buf"}
      BY <1>0, <2>1, <3>1, <3>2, GetsOwes, GoesIs
    <3>4. LocalsInv'
      BY <1>0, <2>1, <3>3 DEF LocalsInv
    <3>5. QED
      BY <1>0, <2>1, <3>1, <3>2, <3>4, IoGets
  <2>2. ASSUME io.at = "open", Kept, Goes("error"), UNCHANGED sys PROVE IoInv'
    <3>1. "error" \in IoPlaces
      BY DEF IoPlaces
    <3>2. Kept
      BY <2>2
    <3>3. io'.at = "error" /\ locals' = locals
      BY <1>0, <2>2, <3>1, GoesIs DEF Kept
    <3>4. LocalsInv'
      BY <1>0, <2>2, <3>3 DEF LocalsInv
    <3>5. QED
      BY <1>0, <2>2, <3>1, <3>2, <3>4, IoKeeps
  <2>3. ASSUME io.at = "raw", Gets("raw"), Goes("name"), UNCHANGED sys PROVE IoInv'
    <3>1. "name" \in IoPlaces
      BY DEF IoPlaces
    <3>2. "raw" \in Locals /\ "raw" \notin locals
      BY <1>0, <2>3 DEF Locals, LocalsInv
    <3>3. io'.at = "name" /\ locals' = locals \cup {"raw"}
      BY <1>0, <2>3, <3>1, <3>2, GetsOwes, GoesIs
    <3>4. LocalsInv'
      BY <1>0, <2>3, <3>3 DEF LocalsInv
    <3>5. QED
      BY <1>0, <2>3, <3>1, <3>2, <3>4, IoGets
  <2>4. ASSUME io.at = "raw", Kept, Goes("error"), UNCHANGED sys PROVE IoInv'
    <3>1. "error" \in IoPlaces
      BY DEF IoPlaces
    <3>2. Kept
      BY <2>4
    <3>3. io'.at = "error" /\ locals' = locals
      BY <1>0, <2>4, <3>1, GoesIs DEF Kept
    <3>4. LocalsInv'
      BY <1>0, <2>4, <3>3 DEF LocalsInv
    <3>5. QED
      BY <1>0, <2>4, <3>1, <3>2, <3>4, IoKeeps
  <2>5. QED
    BY <1>2, <2>1, <2>2, <2>3, <2>4 DEF OpenBuffer, Makes
<1>3. CASE NameBuffer
  <2>1. ASSUME io.at = "name", Gets("text"), Goes("isatty"), UNCHANGED sys PROVE IoInv'
    <3>1. "isatty" \in IoPlaces
      BY DEF IoPlaces
    <3>2. "text" \in Locals /\ "text" \notin locals
      BY <1>0, <2>1 DEF Locals, LocalsInv
    <3>3. io'.at = "isatty" /\ locals' = locals \cup {"text"}
      BY <1>0, <2>1, <3>1, <3>2, GetsOwes, GoesIs
    <3>4. LocalsInv'
      BY <1>0, <2>1, <3>3 DEF LocalsInv
    <3>5. QED
      BY <1>0, <2>1, <3>1, <3>2, <3>4, IoGets
  <2>2. ASSUME io.at = "name", Kept, Goes("error"), UNCHANGED sys PROVE IoInv'
    <3>1. "error" \in IoPlaces
      BY DEF IoPlaces
    <3>2. Kept
      BY <2>2
    <3>3. io'.at = "error" /\ locals' = locals
      BY <1>0, <2>2, <3>1, GoesIs DEF Kept
    <3>4. LocalsInv'
      BY <1>0, <2>2, <3>3 DEF LocalsInv
    <3>5. QED
      BY <1>0, <2>2, <3>1, <3>2, <3>4, IoKeeps
  <2>3. ASSUME io.at = "isatty", Kept, Goes("error"), UNCHANGED sys PROVE IoInv'
    <3>1. "error" \in IoPlaces
      BY DEF IoPlaces
    <3>2. Kept
      BY <2>3
    <3>3. io'.at = "error" /\ locals' = locals
      BY <1>0, <2>3, <3>1, GoesIs DEF Kept
    <3>4. LocalsInv'
      BY <1>0, <2>3, <3>3 DEF LocalsInv
    <3>5. QED
      BY <1>0, <2>3, <3>1, <3>2, <3>4, IoKeeps
  <2>4. ASSUME io.at = "isatty", GivesBack({"raw", "text"}), Goes("wrap"), UNCHANGED sys PROVE IoInv'
    <3>1. "wrap" \in IoPlaces
      BY DEF IoPlaces
    <3>2. {"raw", "text"} \subseteq locals
      BY <1>0, <2>4 DEF LocalsInv
    <3>3. io'.at = "wrap" /\ locals' = locals \ {"raw", "text"}
      BY <1>0, <2>4, <3>1, <3>2, GivesOwes, GoesIs
    <3>4. LocalsInv'
      BY <1>0, <2>4, <3>3 DEF LocalsInv
    <3>5. QED
      BY <1>0, <2>4, <3>1, <3>2, <3>4, IoGives
  <2>5. QED
    BY <1>3, <2>1, <2>2, <2>3, <2>4 DEF NameBuffer, Makes
<1>4. CASE WrapBuffer
  <2>1. ASSUME io.at = "wrap", Gets("stream"), Goes("wrapped"), UNCHANGED sys PROVE IoInv'
    <3>1. "wrapped" \in IoPlaces
      BY DEF IoPlaces
    <3>2. "stream" \in Locals /\ "stream" \notin locals
      BY <1>0, <2>1 DEF Locals, LocalsInv
    <3>3. io'.at = "wrapped" /\ locals' = locals \cup {"stream"}
      BY <1>0, <2>1, <3>1, <3>2, GetsOwes, GoesIs
    <3>4. LocalsInv'
      BY <1>0, <2>1, <3>3 DEF LocalsInv
    <3>5. QED
      BY <1>0, <2>1, <3>1, <3>2, <3>4, IoGets
  <2>2. ASSUME io.at = "wrap", Kept, Goes("unwrapped"), UNCHANGED sys PROVE IoInv'
    <3>1. "unwrapped" \in IoPlaces
      BY DEF IoPlaces
    <3>2. Kept
      BY <2>2
    <3>3. io'.at = "unwrapped" /\ locals' = locals
      BY <1>0, <2>2, <3>1, GoesIs DEF Kept
    <3>4. LocalsInv'
      BY <1>0, <2>2, <3>3 DEF LocalsInv
    <3>5. QED
      BY <1>0, <2>2, <3>1, <3>2, <3>4, IoKeeps
  <2>3. ASSUME io.at = "wrapped", GivesBack({"buf"}), Goes("mode"), UNCHANGED sys PROVE IoInv'
    <3>1. "mode" \in IoPlaces
      BY DEF IoPlaces
    <3>2. {"buf"} \subseteq locals
      BY <1>0, <2>3 DEF LocalsInv
    <3>3. io'.at = "mode" /\ locals' = locals \ {"buf"}
      BY <1>0, <2>3, <3>1, <3>2, GivesOwes, GoesIs
    <3>4. LocalsInv'
      BY <1>0, <2>3, <3>3 DEF LocalsInv
    <3>5. QED
      BY <1>0, <2>3, <3>1, <3>2, <3>4, IoGives
  <2>4. ASSUME io.at = "unwrapped", GivesBack({"buf"}), Goes("error"), UNCHANGED sys PROVE IoInv'
    <3>1. "error" \in IoPlaces
      BY DEF IoPlaces
    <3>2. {"buf"} \subseteq locals
      BY <1>0, <2>4 DEF LocalsInv
    <3>3. io'.at = "error" /\ locals' = locals \ {"buf"}
      BY <1>0, <2>4, <3>1, <3>2, GivesOwes, GoesIs
    <3>4. LocalsInv'
      BY <1>0, <2>4, <3>3 DEF LocalsInv
    <3>5. QED
      BY <1>0, <2>4, <3>1, <3>2, <3>4, IoGives
  <2>5. QED
    BY <1>4, <2>1, <2>2, <2>3, <2>4 DEF WrapBuffer, Makes
<1>5. CASE ReturnStream
  <2>1. ASSUME io.at = "mode", Gets("text"), Goes("mode_set"), UNCHANGED sys PROVE IoInv'
    <3>1. "mode_set" \in IoPlaces
      BY DEF IoPlaces
    <3>2. "text" \in Locals /\ "text" \notin locals
      BY <1>0, <2>1 DEF Locals, LocalsInv
    <3>3. io'.at = "mode_set" /\ locals' = locals \cup {"text"}
      BY <1>0, <2>1, <3>1, <3>2, GetsOwes, GoesIs
    <3>4. LocalsInv'
      BY <1>0, <2>1, <3>3 DEF LocalsInv
    <3>5. QED
      BY <1>0, <2>1, <3>1, <3>2, <3>4, IoGets
  <2>2. ASSUME io.at = "mode", Kept, Goes("error"), UNCHANGED sys PROVE IoInv'
    <3>1. "error" \in IoPlaces
      BY DEF IoPlaces
    <3>2. Kept
      BY <2>2
    <3>3. io'.at = "error" /\ locals' = locals
      BY <1>0, <2>2, <3>1, GoesIs DEF Kept
    <3>4. LocalsInv'
      BY <1>0, <2>2, <3>3 DEF LocalsInv
    <3>5. QED
      BY <1>0, <2>2, <3>1, <3>2, <3>4, IoKeeps
  <2>3. ASSUME io.at = "mode_set", Kept, Goes("error"), UNCHANGED sys PROVE IoInv'
    <3>1. "error" \in IoPlaces
      BY DEF IoPlaces
    <3>2. Kept
      BY <2>3
    <3>3. io'.at = "error" /\ locals' = locals
      BY <1>0, <2>3, <3>1, GoesIs DEF Kept
    <3>4. LocalsInv'
      BY <1>0, <2>3, <3>3 DEF LocalsInv
    <3>5. QED
      BY <1>0, <2>3, <3>1, <3>2, <3>4, IoKeeps
  <2>4. ASSUME io.at = "mode_set", GivesBack({"text"}), Goes("return"), UNCHANGED sys PROVE IoInv'
    <3>1. "return" \in IoPlaces
      BY DEF IoPlaces
    <3>2. {"text"} \subseteq locals
      BY <1>0, <2>4 DEF LocalsInv
    <3>3. io'.at = "return" /\ locals' = locals \ {"text"}
      BY <1>0, <2>4, <3>1, <3>2, GivesOwes, GoesIs
    <3>4. LocalsInv'
      BY <1>0, <2>4, <3>3 DEF LocalsInv
    <3>5. QED
      BY <1>0, <2>4, <3>1, <3>2, <3>4, IoGives
  <2>5. ASSUME io.at = "return", Goes("made"), UNCHANGED sys,
               locals' = (locals \cup {"std"}) \ {"stream"},
               owed' = [owed EXCEPT !["std"] = @ + 1, !["stream"] = @ - 1]
        PROVE  IoInv'
    <3>1. io'.at = "made" /\ io'.file = io.file
          /\ io' \in [at : IoPlaces, file : Std, buffering : BOOLEAN, status : {0, -1}]
      BY <1>0, <2>5, GoesIs DEF IoPlaces
    <3>2. "std" \notin locals /\ "stream" \in locals
      BY <1>0, <2>5 DEF LocalsInv
    <3>3. owed' \in [Locals -> Int]
          /\ \A v \in Locals : owed'[v] = CASE v = "std" -> owed[v] + 1
                                            [] v = "stream" -> owed[v] - 1
                                            [] OTHER -> owed[v]
      BY <1>0, <2>5 DEF IoTypeOK, Locals
    <3>4. OwedInv'
      BY <1>0, <2>5, <3>2, <3>3 DEF OwedInv
    <3>5. IoTypeOK'
      BY <1>0, <2>5, <3>1, <3>3 DEF IoTypeOK, Locals
    <3>6. LocalsInv'
      BY <1>0, <2>5, <3>1 DEF LocalsInv
    <3>7. SysInv'
      BY <1>0, <2>5, <3>1 DEF SysInv
    <3>8. QED
      BY <3>4, <3>5, <3>6, <3>7 DEF IoInv
  <2>6. QED
    BY <1>5, <2>1, <2>2, <2>3, <2>4, <2>5 DEF ReturnStream, Makes
<1>6. CASE CheckFd
  <2>1. ASSUME io.at = "fd", Gets("std"), Goes("none"), UNCHANGED sys PROVE IoInv'
    <3>1. "none" \in IoPlaces
      BY DEF IoPlaces
    <3>2. "std" \in Locals /\ "std" \notin locals
      BY <1>0, <2>1 DEF Locals, LocalsInv
    <3>3. io'.at = "none" /\ locals' = locals \cup {"std"}
      BY <1>0, <2>1, <3>1, <3>2, GetsOwes, GoesIs
    <3>4. LocalsInv'
      BY <1>0, <2>1, <3>3 DEF LocalsInv
    <3>5. QED
      BY <1>0, <2>1, <3>1, <3>2, <3>4, IoGets
  <2>2. ASSUME NEW b \in BOOLEAN, io.at = "fd", Kept, UNCHANGED sys,
               io' = [io EXCEPT !.at = "open", !.buffering = b]
        PROVE  IoInv'
    <3>1. io' = [at |-> "open", file |-> io.file, buffering |-> b, status |-> io.status]
      BY <1>0, <2>2 DEF IoTypeOK
    <3>2. io' \in [at : IoPlaces, file : Std, buffering : BOOLEAN, status : {0, -1}]
      BY <1>0, <3>1 DEF IoTypeOK, IoPlaces
    <3>3. io'.at = "open" /\ io'.file = io.file /\ UNCHANGED <<locals, owed, sys>>
      BY <2>2, <3>1 DEF Kept
    <3>4. IoTypeOK' /\ OwedInv'
      BY <1>0, <3>2, <3>3 DEF IoTypeOK, OwedInv
    <3>5. LocalsInv'
      BY <1>0, <2>2, <3>3 DEF LocalsInv
    <3>6. SysInv'
      BY <1>0, <2>2, <3>3 DEF SysInv
    <3>7. QED
      BY <3>4, <3>5, <3>6 DEF IoInv
  <2>3. QED
    BY <1>6, <2>1, <2>2 DEF CheckFd
<1>7. CASE CreateFails
  <2> DEFINE vs == locals \cap {"buf", "raw", "text", "stream"}
  <2>1. io.at = "error" /\ GivesBack(vs) /\ Goes("failed") /\ UNCHANGED sys
    BY <1>7 DEF CreateFails
  <2>2. "failed" \in IoPlaces /\ vs \subseteq locals
    BY DEF IoPlaces
  <2>3. io'.at = "failed" /\ locals' = locals \ vs
    BY <1>0, <2>1, <2>2, GivesOwes, GoesIs
  <2>4. LocalsInv'
    BY <1>0, <2>1, <2>3 DEF LocalsInv
  <2> HIDE DEF vs
  <2>5. QED
    BY <1>0, <2>1, <2>2, <2>4, IoGives
<1>8. CASE SetStream
  <2>1. io.at \in {"none", "made"} /\ GivesBack({"std"})
        /\ sys' = [sys EXCEPT ![io.file] = IF io.at = "none" THEN "None" ELSE "stream"]
    BY <1>8 DEF SetStream
  <2>2. {"std"} \subseteq locals
    BY <1>0, <2>1 DEF LocalsInv
  <2>3. OwedInv' /\ locals' = locals \ {"std"} /\ locals' \subseteq Locals /\ owed' \in [Locals -> Int]
    BY <1>0, <2>1, <2>2, GivesOwes
  <2>4. sys' \in [Std -> {"unset", "None", "stream"}] /\ io.file \in Std
        /\ \A f \in Std : sys'[f] # "unset" <=> f = io.file \/ sys[f] # "unset"
    BY <1>0, <2>1 DEF IoTypeOK
  <2>5. \E to \in {"end", "fd"}, g \in Std :
          /\ io' = [at |-> to, file |-> g, buffering |-> io.buffering, status |-> io.status]
          /\ to = "end" => io.file = "stderr"
          /\ to = "fd" => \/ io.file = "stdin" /\ g = "stdout"
                          \/ io.file = "stdout" /\ g = "stderr"
    <3>1. CASE io.file = "stderr" /\ Goes("end")
      BY <1>0, <3>1, GoesIs DEF IoPlaces, Std
    <3>2. CASE io.file = "stdin" /\ io' = [io EXCEPT !.at = "fd", !.file = "stdout"]
      BY <1>0, <3>2 DEF IoTypeOK, Std
    <3>3. CASE io.file = "stdout" /\ io' = [io EXCEPT !.at = "fd", !.file = "stderr"]
      BY <1>0, <3>3 DEF IoTypeOK, Std
    <3>4. QED
      BY <1>8, <3>1, <3>2, <3>3 DEF SetStream
  <2>6. PICK to \in {"end", "fd"}, g \in Std :
          /\ io' = [at |-> to, file |-> g, buffering |-> io.buffering, status |-> io.status]
          /\ to = "end" => io.file = "stderr"
          /\ to = "fd" => \/ io.file = "stdin" /\ g = "stdout"
                          \/ io.file = "stdout" /\ g = "stderr"
    BY <2>5
  <2>7. io' \in [at : IoPlaces, file : Std, buffering : BOOLEAN, status : {0, -1}]
    BY <1>0, <2>6 DEF IoTypeOK, IoPlaces
  <2>8. io'.at = to /\ io'.file = g
    BY <2>6
  <2>9. IoTypeOK'
    BY <2>3, <2>4, <2>7 DEF IoTypeOK
  <2>10. LocalsInv'
    BY <1>0, <2>1, <2>3, <2>8 DEF LocalsInv
  <2>11. \A f \in Std : sys[f] # "unset" <=> Earlier(f, io.file)
    BY <1>0, <2>1 DEF SysInv
  <2>12. SysInv'
    BY <2>4, <2>6, <2>8, <2>11 DEF SysInv, Earlier, Std
  <2>13. QED
    BY <2>3, <2>9, <2>10, <2>12 DEF IoInv
<1>9. CASE EndStdio
  <2> DEFINE vs == locals \cap {"encoding", "bimod", "iomod"}
  <2>1. /\ io.at \in {"end", "failed"} /\ GivesBack(vs) /\ UNCHANGED sys
        /\ io' = [io EXCEPT !.at = "returned", !.status = IF io.at = "end" THEN 0 ELSE -1]
    BY <1>9 DEF EndStdio
  <2>2. OwedInv' /\ locals' = locals \ vs /\ locals' \subseteq Locals /\ owed' \in [Locals -> Int]
    BY <1>0, <2>1, GivesOwes
  <2>3. locals' = {}
    BY <1>0, <2>1, <2>2 DEF LocalsInv, IoTypeOK, Locals
  <2>4. io' = [at |-> "returned", file |-> io.file, buffering |-> io.buffering,
               status |-> IF io.at = "end" THEN 0 ELSE -1]
    BY <1>0, <2>1 DEF IoTypeOK
  <2>5. io' \in [at : IoPlaces, file : Std, buffering : BOOLEAN, status : {0, -1}]
    BY <1>0, <2>4 DEF IoTypeOK, IoPlaces
  <2>6. io'.at = "returned" /\ io'.status = (IF io.at = "end" THEN 0 ELSE -1)
    BY <2>4
  <2>7. LocalsInv'
    BY <2>3, <2>6 DEF LocalsInv
  <2>8. io.at = "failed" => \E f \in Std : sys[f] = "unset"
    BY <1>0 DEF SysInv, Earlier, IoTypeOK, Std
  <2>9. SysInv'
    BY <1>0, <2>1, <2>6, <2>8 DEF SysInv
  <2>10. QED
    BY <1>0, <2>1, <2>2, <2>5, <2>7, <2>9 DEF IoInv, IoTypeOK
<1>10. CASE UNCHANGED <<io, locals, owed, sys>>
  BY <1>0, <1>10 DEF IoInv, IoTypeOK, OwedInv, LocalsInv, SysInv
<1>11. QED
  BY <1>1, <1>2, <1>3, <1>4, <1>5, <1>6, <1>7, <1>8, <1>9, <1>10

LEMMA IoInvRefs == IoInv => StreamRefs
  BY DEF IoInv, OwedInv, LocalsInv, SysInv, StreamRefs

-----------------------------------------------------------------------------
(* Py_InitializeEx() of 2.7.                                               *)

CodecType == [at : {"idle", "locale", "streams", "exit"}, overridden : BOOLEAN,
              codeset : {"none", "io", "locale"}, free : BOOLEAN,
              default : {"null", "preset", "ours", "this"}, made : Int, inits : Nat]

One(b) == IF b THEN 1 ELSE 0

\* Which strings there are: the file system's, and the codeset that is to be
\* freed.  The codeset that became the file system's is not.
CodecInv ==
  /\ codec \in CodecType
  /\ codec.at \in {"idle", "locale"} => codec.default # "this"
  /\ codec.at = "idle" => codec.made = One(codec.default = "ours")
  /\ codec.at = "locale" =>
       /\ codec.made = One(codec.default = "ours") + One(codec.overridden)
       /\ codec.free = codec.overridden
       /\ codec.codeset = IF codec.overridden THEN "io" ELSE "none"
  /\ codec.at = "streams" =>
       /\ codec.made = One(codec.default \in {"this", "ours"})
                       + One(codec.codeset # "none" /\ codec.free)
       /\ codec.default = "this" /\ codec.codeset = "locale" => ~codec.free

LEMMA CodecInitInv == StreamInit => CodecInv
<1> SUFFICES ASSUME StreamInit PROVE CodecInv
  OBVIOUS
<1>1. PICK d \in {"null", "preset"} : codec = [NoCodec EXCEPT !.default = d]
  BY DEF StreamInit
<1>2. codec = [at |-> "idle", overridden |-> FALSE, codeset |-> "none", free |-> FALSE,
               default |-> d, made |-> 0, inits |-> 0]
  BY <1>1 DEF NoCodec
<1>3. QED
  BY <1>2 DEF CodecInv, CodecType, One

LEMMA CodecNextInv == CodecInv /\ [StreamNext]_streamVars => CodecInv'
<1> SUFFICES ASSUME CodecInv, [StreamNext]_streamVars PROVE CodecInv'
  OBVIOUS
<1>0. codec \in CodecType
  BY DEF CodecInv
<1>1. ASSUME NEW o \in BOOLEAN, ReadEnvironment(o) PROVE CodecInv'
  <2>1. codec' = [at |-> "locale", overridden |-> o, codeset |-> IF o THEN "io" ELSE "none",
                  free |-> o, default |-> codec.default,
                  made |-> IF o THEN codec.made + 1 ELSE codec.made, inits |-> codec.inits + 1]
    BY <1>0, <1>1 DEF ReadEnvironment, CodecType
  <2>2. codec' \in CodecType
    BY <1>0, <2>1 DEF CodecType
  <2>3. codec.default # "this" /\ codec.made = One(codec.default = "ours")
    BY <1>1 DEF ReadEnvironment, CodecInv
  <2>4. QED
    BY <2>1, <2>2, <2>3 DEF CodecInv, One
<1>2. CASE AskLocale
  <2>0. /\ codec.made = One(codec.default = "ours") + One(codec.overridden)
        /\ codec.free = codec.overridden
        /\ codec.codeset = IF codec.overridden THEN "io" ELSE "none"
        /\ codec.default # "this" /\ codec.default \in {"null", "preset", "ours", "this"}
        /\ codec.overridden \in BOOLEAN
    BY <1>2 DEF AskLocale, CodecInv, CodecType
  <2>1. CASE codec' = [codec EXCEPT !.at = "exit"]
    <3>1. codec' \in CodecType /\ codec'.at = "exit"
      BY <1>0, <2>1 DEF CodecType
    <3>2. QED
      BY <3>1 DEF CodecInv
  <2>2. CASE codec' = [codec EXCEPT !.at = "streams"]
    <3>1. codec' = [at |-> "streams", overridden |-> codec.overridden,
                    codeset |-> codec.codeset, free |-> codec.free,
                    default |-> codec.default, made |-> codec.made, inits |-> codec.inits]
      BY <1>0, <2>2 DEF CodecType
    <3>2. codec' \in CodecType
      BY <1>0, <3>1 DEF CodecType
    <3>3. QED
      BY <2>0, <3>1, <3>2 DEF CodecInv, One
  <2>3. CASE /\ ~codec.overridden \/ codec.default = "null"
             /\ codec' = [codec EXCEPT
                            !.at = "streams", !.made = @ + 1,
                            !.codeset = IF codec.overridden THEN @ ELSE "locale",
                            !.default = IF @ = "null" THEN "this" ELSE @,
                            !.free = Shared(codec)]
    <3>1. codec' = [at |-> "streams", overridden |-> codec.overridden,
                    codeset |-> IF codec.overridden THEN codec.codeset ELSE "locale",
                    free |-> codec.overridden \/ codec.default # "null",
                    default |-> IF codec.default = "null" THEN "this" ELSE codec.default,
                    made |-> codec.made + 1, inits |-> codec.inits]
      BY <1>0, <2>3 DEF CodecType, Shared
    <3>2. codec' \in CodecType
      BY <1>0, <3>1 DEF CodecType
    <3>3. ~codec.overridden \/ codec.default = "null"
      BY <2>3
    <3>4. /\ codec'.at = "streams" /\ codec'.made = codec.made + 1
          /\ codec'.codeset = IF codec.overridden THEN codec.codeset ELSE "locale"
          /\ codec'.free <=> codec.overridden \/ codec.default # "null"
          /\ codec'.default = IF codec.default = "null" THEN "this" ELSE codec.default
      BY <3>1
    <3>5. codec'.made = One(codec'.default \in {"this", "ours"})
                        + One(codec'.codeset # "none" /\ codec'.free)
      <4>1. CASE codec.overridden
        <5>1. codec'.codeset = "io" /\ codec'.free /\ codec'.default = "this" /\ codec'.made = 2
          BY <2>0, <3>3, <3>4, <4>1 DEF One
        <5>2. QED
          BY <5>1 DEF One
      <4>2. CASE ~codec.overridden
        <5>1. codec'.codeset = "locale" /\ (codec'.free <=> codec.default # "null")
              /\ codec'.made = One(codec.default = "ours") + 1
          BY <2>0, <3>4, <4>2 DEF One
        <5>2. QED
          BY <2>0, <3>4, <5>1 DEF One
      <4>3. QED
        BY <4>1, <4>2
    <3>6. codec'.default = "this" /\ codec'.codeset = "locale" => ~codec'.free
      BY <2>0, <3>3, <3>4
    <3>7. QED
      BY <3>2, <3>4, <3>5, <3>6 DEF CodecInv
  <2>4. QED
    BY <1>2, <2>1, <2>2, <2>3 DEF AskLocale
<1>3. CASE SetEncodings
  <2> DEFINE frees == codec.codeset # "none" /\ codec.free
  <2>0. /\ codec.made = One(codec.default \in {"this", "ours"}) + One(frees)
        /\ codec.default = "this" /\ codec.codeset = "locale" => ~codec.free
        /\ codec.default \in {"null", "preset", "ours", "this"}
    BY <1>3 DEF SetEncodings, CodecInv, CodecType
  <2>1. CASE codec' = [codec EXCEPT !.at = "exit"]
    <3>1. codec' \in CodecType /\ codec'.at = "exit"
      BY <1>0, <2>1 DEF CodecType
    <3>2. QED
      BY <3>1 DEF CodecInv
  <2>2. CASE codec' = [codec EXCEPT
                         !.at = "idle", !.codeset = "none",
                         !.made = IF frees THEN @ - 1 ELSE @,
                         !.default = IF @ # "this" THEN @
                                     ELSE IF frees /\ codec.codeset = "locale" THEN "freed"
                                     ELSE "ours"]
    <3> DEFINE d == IF codec.default # "this" THEN codec.default
                    ELSE IF frees /\ codec.codeset = "locale" THEN "freed"
                    ELSE "ours"
               m == IF frees THEN codec.made - 1 ELSE codec.made
    <3>1. d = IF codec.default # "this" THEN codec.default ELSE "ours"
      BY <2>0
    <3>2. codec' = [codec EXCEPT !.at = "idle", !.codeset = "none", !.made = m, !.default = d]
      BY <2>2
    <3> HIDE DEF d, m
    <3>3. codec' = [at |-> "idle", overridden |-> codec.overridden, codeset |-> "none",
                    free |-> codec.free, default |-> d, made |-> m, inits |-> codec.inits]
      BY <1>0, <3>2 DEF CodecType
    <3>4. m \in Int /\ d \in {"null", "preset", "ours"}
      BY <1>0, <2>0, <3>1 DEF CodecType, m
    <3>5. codec' \in CodecType
      BY <1>0, <3>3, <3>4 DEF CodecType
    <3>6. m = One(d = "ours")
      BY <2>0, <3>1 DEF m, One
    <3>7. QED
      BY <3>3, <3>4, <3>5, <3>6 DEF CodecInv
  <2>3. QED
    BY <1>3, <2>1, <2>2 DEF SetEncodings
<1>4. CASE UNCHANGED codec
  BY <1>4 DEF CodecInv
<1>5. QED
  BY <1>1, <1>2, <1>3, <1>4
     DEF StreamNext, streamVars, ImportModules, CheckFd, OpenBuffer, NameBuffer, WrapBuffer,
         ReturnStream, CreateFails, SetStream, EndStdio

LEMMA CodecInvKept == CodecInv => EncodingKept
  BY DEF CodecInv, CodecType, EncodingKept, One

-----------------------------------------------------------------------------
(* PyErr_PrintEx() and PyErr_Display().                                    *)

ReportPlaces == {"idle", "fetch", "hook", "display", "lost", "displayed", "name", "syntax",
                 "end", "returned", "exit", "text"}
Todos == {<<>>, <<"first">>, <<"second", "first">>}

ReportTypeOK ==
  /\ report \in [at : ReportPlaces, version : Versions, todo : Todos, attr : 1 .. 6,
                 inspect : BOOLEAN, leak : BOOLEAN]
  /\ given \in [fetched : 0 .. 1, second : 0 .. 1, value : 0 .. 1, message : 0 .. 1]

\* The value is held while the exception is displayed, the message once it is
\* read; nothing else is when the call has returned.
GivenInv ==
  /\ given.value = IF report.at \in {"lost", "displayed", "name", "syntax"} THEN 1 ELSE 0
  /\ given.message = IF report.at = "syntax" /\ report.attr > 1 THEN 1 ELSE 0
  /\ report.at = "returned" => given.fetched = 0 /\ given.second = 0

\* What is shown and what is to be shown make up the exceptions that were
\* raised.
Pending ==
  \/ /\ report.todo \in {<<"first">>, <<"second", "first">>}
     /\ shown = <<>> /\ unseen = {}
  \/ /\ report.todo = <<"first">>
     /\ \/ shown = <<"second">> /\ unseen = {}
        \/ shown = <<>> /\ unseen = {"second"}

Ended(s, u) ==
  \/ s = <<"first">> /\ u \in {{}, {"second"}}
  \/ s = <<>> /\ u \in {{"first"}, {"second", "first"}}
  \/ s = <<"second", "first">> /\ u = {}
  \/ s = <<"second">> /\ u = {"first"}

ReportedInv ==
  /\ report.at \in {"idle", "fetch", "hook"} => shown = <<>> /\ unseen = {}
  /\ report.at \in {"display", "lost", "displayed", "name", "syntax"} => Pending
  /\ report.at \in {"end", "returned"} => Ended(shown, unseen)

LeakInv == report.leak => report.version = "2.6"

ReportInv == ReportTypeOK /\ GivenInv /\ ReportedInv /\ LeakInv

\* Appending to a sequence of no element, and of one.
LEMMA AppendOne == \A v : Append(<<>>, v) = <<v>>
<1> TAKE v
<1>1. Append(<<>>, v) \in Seq({v}) /\ <<v>> \in Seq({v})
  OBVIOUS
<1>2. Len(Append(<<>>, v)) = 1 /\ Len(<<v>>) = 1 /\ Append(<<>>, v)[1] = v /\ <<v>>[1] = v
  OBVIOUS
<1>3. QED
  BY <1>1, <1>2, SeqEqual

LEMMA AppendTwo == \A u, v : Append(<<u>>, v) = <<u, v>>
<1> TAKE u, v
<1> DEFINE s == Append(<<u>>, v)
           t == <<u, v>>
<1>1. s \in Seq({u, v}) /\ t \in Seq({u, v})
  OBVIOUS
<1>2. Len(s) = 2 /\ Len(t) = 2 /\ s[1] = u /\ t[1] = u /\ s[2] = v /\ t[2] = v
  OBVIOUS
<1> HIDE DEF s, t
<1>3. \A i \in 1 .. Len(s) : s[i] = t[i]
  BY <1>2
<1>4. s = t
  BY <1>1, <1>2, <1>3, SeqEqual
<1>5. QED
  BY <1>4 DEF s, t

LEMMA SeqLens == \A u, v, w : <<u>> # <<v, w>>
<1> TAKE u, v, w
<1>1. Len(<<u>>) = 1 /\ Len(<<v, w>>) = 2
  OBVIOUS
<1>2. QED
  BY <1>1

LEMMA ReportInitInv == ReportInit => ReportInv
<1> SUFFICES ASSUME ReportInit PROVE ReportInv
  OBVIOUS
<1>1. PICK v \in Versions :
        report = [at |-> "idle", version |-> v, todo |-> <<>>, attr |-> 1,
                  inspect |-> FALSE, leak |-> FALSE]
  BY DEF ReportInit
<1>2. /\ given = [fetched |-> 0, second |-> 0, value |-> 0, message |-> 0]
      /\ shown = <<>> /\ unseen = {}
  BY DEF ReportInit
<1>3. report.at = "idle" /\ report.attr = 1 /\ report.leak = FALSE
  BY <1>1
<1>4. given.value = 0 /\ given.message = 0
  BY <1>2
<1>5. ReportTypeOK
  BY <1>1, <1>2 DEF ReportTypeOK, ReportPlaces, Todos
<1>6. QED
  BY <1>2, <1>3, <1>4, <1>5 DEF ReportInv, GivenInv, ReportedInv, LeakInv

\* A step that moves the call only.
LEMMA ProceedsIs ==
  ASSUME ReportTypeOK, NEW to \in ReportPlaces, Proceeds(to)
  PROVE  /\ report' = [at |-> to, version |-> report.version, todo |-> report.todo,
                       attr |-> report.attr, inspect |-> report.inspect, leak |-> report.leak]
         /\ report' \in [at : ReportPlaces, version : Versions, todo : Todos, attr : 1 .. 6,
                         inspect : BOOLEAN, leak : BOOLEAN]
<1>1. report' = [at |-> to, version |-> report.version, todo |-> report.todo,
                 attr |-> report.attr, inspect |-> report.inspect, leak |-> report.leak]
  BY DEF Proceeds, ReportTypeOK
<1>2. QED
  BY <1>1 DEF ReportTypeOK

\* The parts of the invariant, from what a step makes of the places it looks at.
LEMMA ReportStep ==
  ASSUME ReportTypeOK,
         report' \in [at : ReportPlaces, version : Versions, todo : Todos, attr : 1 .. 6,
                      inspect : BOOLEAN, leak : BOOLEAN],
         given' \in [fetched : 0 .. 1, second : 0 .. 1, value : 0 .. 1, message : 0 .. 1],
         GivenInv', ReportedInv', LeakInv'
  PROVE  ReportInv'
  BY DEF ReportInv, ReportTypeOK

LEMMA ReportNextInv == ReportInv /\ [ReportNext]_reportVars => ReportInv'
<1> SUFFICES ASSUME ReportInv, [ReportNext]_reportVars PROVE ReportInv'
  OBVIOUS
<1>0. ReportTypeOK /\ GivenInv /\ ReportedInv /\ LeakInv
  BY DEF ReportInv
<1>t. /\ report.at \in ReportPlaces /\ report.version \in Versions /\ report.todo \in Todos
      /\ report.attr \in 1 .. 6 /\ given.fetched \in 0 .. 1 /\ given.second \in 0 .. 1
      /\ given.value \in 0 .. 1 /\ given.message \in 0 .. 1
  BY <1>0 DEF ReportTypeOK
<1>1. ASSUME NEW i \in BOOLEAN, HandleSystemExit(i) PROVE ReportInv'
  <2>1. ASSUME report.at = "idle", shown = <<>>, shown' = shown /\ unseen' = unseen, given' = given,
               report' = [report EXCEPT !.at = "fetch", !.inspect = TRUE]
        PROVE  ReportInv'
    <3>1. report' = [at |-> "fetch", version |-> report.version, todo |-> report.todo, attr
                     |-> report.attr, inspect |-> TRUE, leak |-> report.leak]
      BY <1>0, <2>1 DEF Proceeds, ReportTypeOK
    <3>2. given' = given
      BY <2>1
    <3>3. report.at = "idle" /\ shown = <<>> /\ shown' = shown /\ unseen' = unseen
      BY <2>1
    <3>4. report' \in [at : ReportPlaces, version : Versions, todo : Todos, attr : 1 .. 6,
                     inspect : BOOLEAN, leak : BOOLEAN]
      BY <1>0, <1>t, <3>1, <3>3 DEF ReportTypeOK, ReportPlaces, Todos
    <3>5. given' \in [fetched : 0 .. 1, second : 0 .. 1, value : 0 .. 1, message : 0 .. 1]
      BY <1>0, <1>t, <3>2, <3>3 DEF ReportTypeOK
    <3>6. GivenInv'
      BY <1>0, <1>t, <3>1, <3>2, <3>3 DEF GivenInv
    <3>7. ReportedInv'
      BY <1>0, <3>1, <3>3 DEF ReportedInv, Pending, Ended
    <3>8. LeakInv'
      BY <1>0, <3>1, <3>3 DEF LeakInv
    <3>9. QED
      BY <1>0, <3>4, <3>5, <3>6, <3>7, <3>8, ReportStep
  <2>2. ASSUME report.at = "idle", shown = <<>>, shown' = shown /\ unseen' = unseen, given' = given,
               Proceeds("exit")
        PROVE  ReportInv'
    <3>1. report' = [at |-> "exit", version |-> report.version, todo |-> report.todo, attr
                     |-> report.attr, inspect |-> report.inspect, leak |-> report.leak]
      BY <1>0, <2>2 DEF Proceeds, ReportTypeOK
    <3>2. given' = given
      BY <2>2
    <3>3. report.at = "idle" /\ shown = <<>> /\ shown' = shown /\ unseen' = unseen
      BY <2>2
    <3>4. report' \in [at : ReportPlaces, version : Versions, todo : Todos, attr : 1 .. 6,
                     inspect : BOOLEAN, leak : BOOLEAN]
      BY <1>0, <1>t, <3>1, <3>3 DEF ReportTypeOK, ReportPlaces, Todos
    <3>5. given' \in [fetched : 0 .. 1, second : 0 .. 1, value : 0 .. 1, message : 0 .. 1]
      BY <1>0, <1>t, <3>2, <3>3 DEF ReportTypeOK
    <3>6. GivenInv'
      BY <1>0, <1>t, <3>1, <3>2, <3>3 DEF GivenInv
    <3>7. ReportedInv'
      BY <1>0, <3>1, <3>3 DEF ReportedInv, Pending, Ended
    <3>8. LeakInv'
      BY <1>0, <3>1, <3>3 DEF LeakInv
    <3>9. QED
      BY <1>0, <3>4, <3>5, <3>6, <3>7, <3>8, ReportStep
  <2>3. QED
    BY <1>1, <2>1, <2>2 DEF HandleSystemExit
<1>2. CASE Fetch
  <2>1. ASSUME report.at \in {"fetch", "idle"}, report.at = "idle" => shown = <<>>,
               shown' = shown /\ unseen' = unseen, Proceeds("hook"),
               given' = [given EXCEPT !.fetched = 1]
        PROVE  ReportInv'
    <3>1. report' = [at |-> "hook", version |-> report.version, todo |-> report.todo, attr
                     |-> report.attr, inspect |-> report.inspect, leak |-> report.leak]
      BY <1>0, <2>1 DEF Proceeds, ReportTypeOK
    <3>2. given' = [fetched |-> 1, second |-> given.second, value |-> given.value, message
                    |-> given.message]
      BY <1>0, <2>1 DEF ReportTypeOK
    <3>3. /\ report.at \in {"fetch", "idle"} /\ (report.at = "idle" => shown = <<>>)
          /\ shown' = shown /\ unseen' = unseen
      BY <2>1
    <3>4. report' \in [at : ReportPlaces, version : Versions, todo : Todos, attr : 1 .. 6,
                     inspect : BOOLEAN, leak : BOOLEAN]
      BY <1>0, <1>t, <3>1, <3>3 DEF ReportTypeOK, ReportPlaces, Todos
    <3>5. given' \in [fetched : 0 .. 1, second : 0 .. 1, value : 0 .. 1, message : 0 .. 1]
      BY <1>0, <1>t, <3>2, <3>3 DEF ReportTypeOK
    <3>6. GivenInv'
      BY <1>0, <1>t, <3>1, <3>2, <3>3 DEF GivenInv
    <3>7. ReportedInv'
      BY <1>0, <3>1, <3>3 DEF ReportedInv, Pending, Ended
    <3>8. LeakInv'
      BY <1>0, <3>1, <3>3 DEF LeakInv
    <3>9. QED
      BY <1>0, <3>4, <3>5, <3>6, <3>7, <3>8, ReportStep
  <2>2. QED
    BY <1>2, <2>1 DEF Fetch
<1>3. CASE CallHook
  <2>1. ASSUME report.at = "hook", shown' = shown /\ unseen' = unseen, given' = given,
               report' = [report EXCEPT !.at = "display", !.todo = <<"first">>]
        PROVE  ReportInv'
    <3>1. report' = [at |-> "display", version |-> report.version, todo |-> <<"first">>,
                     attr |-> report.attr, inspect |-> report.inspect, leak |-> report.leak]
      BY <1>0, <2>1 DEF Proceeds, ReportTypeOK
    <3>2. given' = given
      BY <2>1
    <3>3. report.at = "hook" /\ shown' = shown /\ unseen' = unseen
      BY <2>1
    <3>4. report' \in [at : ReportPlaces, version : Versions, todo : Todos, attr : 1 .. 6,
                     inspect : BOOLEAN, leak : BOOLEAN]
      BY <1>0, <1>t, <3>1, <3>3 DEF ReportTypeOK, ReportPlaces, Todos
    <3>5. given' \in [fetched : 0 .. 1, second : 0 .. 1, value : 0 .. 1, message : 0 .. 1]
      BY <1>0, <1>t, <3>2, <3>3 DEF ReportTypeOK
    <3>6. GivenInv'
      BY <1>0, <1>t, <3>1, <3>2, <3>3 DEF GivenInv
    <3>7. ReportedInv'
      BY <1>0, <3>1, <3>3 DEF ReportedInv, Pending, Ended
    <3>8. LeakInv'
      BY <1>0, <3>1, <3>3 DEF LeakInv
    <3>9. QED
      BY <1>0, <3>4, <3>5, <3>6, <3>7, <3>8, ReportStep
  <2>2. ASSUME report.at = "hook", given' = given, Proceeds("end"),
               shown' = <<"first">> /\ unseen' = unseen
        PROVE  ReportInv'
    <3>1. report' = [at |-> "end", version |-> report.version, todo |-> report.todo, attr
                     |-> report.attr, inspect |-> report.inspect, leak |-> report.leak]
      BY <1>0, <2>2 DEF Proceeds, ReportTypeOK
    <3>2. given' = given
      BY <2>2
    <3>3. report.at = "hook" /\ shown' = <<"first">> /\ unseen' = unseen
      BY <2>2
    <3>4. report' \in [at : ReportPlaces, version : Versions, todo : Todos, attr : 1 .. 6,
                     inspect : BOOLEAN, leak : BOOLEAN]
      BY <1>0, <1>t, <3>1, <3>3 DEF ReportTypeOK, ReportPlaces, Todos
    <3>5. given' \in [fetched : 0 .. 1, second : 0 .. 1, value : 0 .. 1, message : 0 .. 1]
      BY <1>0, <1>t, <3>2, <3>3 DEF ReportTypeOK
    <3>6. GivenInv'
      BY <1>0, <1>t, <3>1, <3>2, <3>3 DEF GivenInv
    <3>7. ReportedInv'
      BY <1>0, <3>1, <3>3 DEF ReportedInv, Pending, Ended
    <3>8. LeakInv'
      BY <1>0, <3>1, <3>3 DEF LeakInv
    <3>9. QED
      BY <1>0, <3>4, <3>5, <3>6, <3>7, <3>8, ReportStep
  <2>3. ASSUME report.at = "hook", shown' = shown /\ unseen' = unseen, given' = given, Proceeds("exit")
        PROVE  ReportInv'
    <3>1. report' = [at |-> "exit", version |-> report.version, todo |-> report.todo, attr
                     |-> report.attr, inspect |-> report.inspect, leak |-> report.leak]
      BY <1>0, <2>3 DEF Proceeds, ReportTypeOK
    <3>2. given' = given
      BY <2>3
    <3>3. report.at = "hook" /\ shown' = shown /\ unseen' = unseen
      BY <2>3
    <3>4. report' \in [at : ReportPlaces, version : Versions, todo : Todos, attr : 1 .. 6,
                     inspect : BOOLEAN, leak : BOOLEAN]
      BY <1>0, <1>t, <3>1, <3>3 DEF ReportTypeOK, ReportPlaces, Todos
    <3>5. given' \in [fetched : 0 .. 1, second : 0 .. 1, value : 0 .. 1, message : 0 .. 1]
      BY <1>0, <1>t, <3>2, <3>3 DEF ReportTypeOK
    <3>6. GivenInv'
      BY <1>0, <1>t, <3>1, <3>2, <3>3 DEF GivenInv
    <3>7. ReportedInv'
      BY <1>0, <3>1, <3>3 DEF ReportedInv, Pending, Ended
    <3>8. LeakInv'
      BY <1>0, <3>1, <3>3 DEF LeakInv
    <3>9. QED
      BY <1>0, <3>4, <3>5, <3>6, <3>7, <3>8, ReportStep
  <2>4. ASSUME report.at = "hook", shown' = shown /\ unseen' = unseen, given' = [given EXCEPT !.second = 1],
               report' = [report EXCEPT !.at = "display", !.todo = <<"second", "first">>]
        PROVE  ReportInv'
    <3>1. report' = [at |-> "display", version |-> report.version, todo |-> <<"second",
                     "first">>, attr |-> report.attr, inspect |-> report.inspect, leak |->
                     report.leak]
      BY <1>0, <2>4 DEF Proceeds, ReportTypeOK
    <3>2. given' = [fetched |-> given.fetched, second |-> 1, value |-> given.value, message
                    |-> given.message]
      BY <1>0, <2>4 DEF ReportTypeOK
    <3>3. report.at = "hook" /\ shown' = shown /\ unseen' = unseen
      BY <2>4
    <3>4. report' \in [at : ReportPlaces, version : Versions, todo : Todos, attr : 1 .. 6,
                     inspect : BOOLEAN, leak : BOOLEAN]
      BY <1>0, <1>t, <3>1, <3>3 DEF ReportTypeOK, ReportPlaces, Todos
    <3>5. given' \in [fetched : 0 .. 1, second : 0 .. 1, value : 0 .. 1, message : 0 .. 1]
      BY <1>0, <1>t, <3>2, <3>3 DEF ReportTypeOK
    <3>6. GivenInv'
      BY <1>0, <1>t, <3>1, <3>2, <3>3 DEF GivenInv
    <3>7. ReportedInv'
      BY <1>0, <3>1, <3>3 DEF ReportedInv, Pending, Ended
    <3>8. LeakInv'
      BY <1>0, <3>1, <3>3 DEF LeakInv
    <3>9. QED
      BY <1>0, <3>4, <3>5, <3>6, <3>7, <3>8, ReportStep
  <2>5. QED
    BY <1>3, <2>1, <2>2, <2>3, <2>4 DEF CallHook, FailingHook
<1>4. CASE EndPrint
  <2>1. ASSUME report.at = "end", shown' = shown /\ unseen' = unseen, Proceeds("returned"),
               given' = [given EXCEPT !.fetched = 0, !.second = 0]
        PROVE  ReportInv'
    <3>1. report' = [at |-> "returned", version |-> report.version, todo |-> report.todo,
                     attr |-> report.attr, inspect |-> report.inspect, leak |-> report.leak]
      BY <1>0, <2>1 DEF Proceeds, ReportTypeOK
    <3>2. given' = [fetched |-> 0, second |-> 0, value |-> given.value, message |->
                    given.message]
      BY <1>0, <2>1 DEF ReportTypeOK
    <3>3. report.at = "end" /\ shown' = shown /\ unseen' = unseen
      BY <2>1
    <3>4. report' \in [at : ReportPlaces, version : Versions, todo : Todos, attr : 1 .. 6,
                     inspect : BOOLEAN, leak : BOOLEAN]
      BY <1>0, <1>t, <3>1, <3>3 DEF ReportTypeOK, ReportPlaces, Todos
    <3>5. given' \in [fetched : 0 .. 1, second : 0 .. 1, value : 0 .. 1, message : 0 .. 1]
      BY <1>0, <1>t, <3>2, <3>3 DEF ReportTypeOK
    <3>6. GivenInv'
      BY <1>0, <1>t, <3>1, <3>2, <3>3 DEF GivenInv
    <3>7. ReportedInv'
      BY <1>0, <3>1, <3>3 DEF ReportedInv, Pending, Ended
    <3>8. LeakInv'
      BY <1>0, <3>1, <3>3 DEF LeakInv
    <3>9. QED
      BY <1>0, <3>4, <3>5, <3>6, <3>7, <3>8, ReportStep
  <2>2. QED
    BY <1>4, <2>1 DEF EndPrint
<1>5. CASE DisplayDirectly
  <2>1. ASSUME report.at = "idle", shown = <<>>, shown' = shown /\ unseen' = unseen, given' = given,
               report' = [report EXCEPT !.at = "display", !.todo = <<"first">>]
        PROVE  ReportInv'
    <3>1. report' = [at |-> "display", version |-> report.version, todo |-> <<"first">>,
                     attr |-> report.attr, inspect |-> report.inspect, leak |-> report.leak]
      BY <1>0, <2>1 DEF Proceeds, ReportTypeOK
    <3>2. given' = given
      BY <2>1
    <3>3. report.at = "idle" /\ shown = <<>> /\ shown' = shown /\ unseen' = unseen
      BY <2>1
    <3>4. report' \in [at : ReportPlaces, version : Versions, todo : Todos, attr : 1 .. 6,
                     inspect : BOOLEAN, leak : BOOLEAN]
      BY <1>0, <1>t, <3>1, <3>3 DEF ReportTypeOK, ReportPlaces, Todos
    <3>5. given' \in [fetched : 0 .. 1, second : 0 .. 1, value : 0 .. 1, message : 0 .. 1]
      BY <1>0, <1>t, <3>2, <3>3 DEF ReportTypeOK
    <3>6. GivenInv'
      BY <1>0, <1>t, <3>1, <3>2, <3>3 DEF GivenInv
    <3>7. ReportedInv'
      BY <1>0, <3>1, <3>3 DEF ReportedInv, Pending, Ended
    <3>8. LeakInv'
      BY <1>0, <3>1, <3>3 DEF LeakInv
    <3>9. QED
      BY <1>0, <3>4, <3>5, <3>6, <3>7, <3>8, ReportStep
  <2>2. QED
    BY <1>5, <2>1 DEF DisplayDirectly
<1>6. CASE BeginDisplay
  <2>1. ASSUME NEW to, to \in {"lost", "displayed", "name", "syntax"}, report.at = "display",
               shown' = shown /\ unseen' = unseen, given' = [given EXCEPT !.value = 1],
               report' = [report EXCEPT !.at = to, !.attr = 1]
        PROVE  ReportInv'
    <3>1. report' = [at |-> to, version |-> report.version, todo |-> report.todo, attr |->
                     1, inspect |-> report.inspect, leak |-> report.leak]
      BY <1>0, <2>1 DEF Proceeds, ReportTypeOK
    <3>2. given' = [fetched |-> given.fetched, second |-> given.second, value |-> 1,
                    message |-> given.message]
      BY <1>0, <2>1 DEF ReportTypeOK
    <3>3. /\ to \in {"lost", "displayed", "name", "syntax"} /\ report.at = "display"
          /\ shown' = shown /\ unseen' = unseen
      BY <2>1
    <3>4. report' \in [at : ReportPlaces, version : Versions, todo : Todos, attr : 1 .. 6,
                     inspect : BOOLEAN, leak : BOOLEAN]
      BY <1>0, <1>t, <3>1, <3>3 DEF ReportTypeOK, ReportPlaces, Todos
    <3>5. given' \in [fetched : 0 .. 1, second : 0 .. 1, value : 0 .. 1, message : 0 .. 1]
      BY <1>0, <1>t, <3>2, <3>3 DEF ReportTypeOK
    <3>6. GivenInv'
      BY <1>0, <1>t, <3>1, <3>2, <3>3 DEF GivenInv
    <3>7. ReportedInv'
      BY <1>0, <3>1, <3>3 DEF ReportedInv, Pending, Ended
    <3>8. LeakInv'
      BY <1>0, <3>1, <3>3 DEF LeakInv
    <3>9. QED
      BY <1>0, <3>4, <3>5, <3>6, <3>7, <3>8, ReportStep
  <2>2. QED
    BY <1>6, <2>1 DEF BeginDisplay
<1>7. CASE ReadAttribute
  <2>1. ASSUME NEW m, report.at = "syntax", report.attr \in 1 .. 5, shown' = shown /\ unseen' = unseen,
               report' = [report EXCEPT !.attr = report.attr + 1],
               m = (IF report.attr = 1 THEN 1 ELSE given.message),
               given' = [given EXCEPT !.message = m]
        PROVE  ReportInv'
    <3>1. report' = [at |-> report.at, version |-> report.version, todo |-> report.todo,
                     attr |-> report.attr + 1, inspect |-> report.inspect, leak |->
                     report.leak]
      BY <1>0, <2>1 DEF Proceeds, ReportTypeOK
    <3>2. given' = [fetched |-> given.fetched, second |-> given.second, value |->
                    given.value, message |-> m]
      BY <1>0, <2>1 DEF ReportTypeOK
    <3>3. /\ report.at = "syntax" /\ report.attr \in 1 .. 5
          /\ shown' = shown /\ unseen' = unseen
          /\ m = (IF report.attr = 1 THEN 1 ELSE given.message)
      BY <2>1
    <3>4. report' \in [at : ReportPlaces, version : Versions, todo : Todos, attr : 1 .. 6,
                     inspect : BOOLEAN, leak : BOOLEAN]
      BY <1>0, <1>t, <3>1, <3>3 DEF ReportTypeOK, ReportPlaces, Todos
    <3>5. given' \in [fetched : 0 .. 1, second : 0 .. 1, value : 0 .. 1, message : 0 .. 1]
      BY <1>0, <1>t, <3>2, <3>3 DEF ReportTypeOK
    <3>6. GivenInv'
      BY <1>0, <1>t, <3>1, <3>2, <3>3 DEF GivenInv
    <3>7. ReportedInv'
      BY <1>0, <3>1, <3>3 DEF ReportedInv, Pending, Ended
    <3>8. LeakInv'
      BY <1>0, <3>1, <3>3 DEF LeakInv
    <3>9. QED
      BY <1>0, <3>4, <3>5, <3>6, <3>7, <3>8, ReportStep
  <2>2. ASSUME report.at = "syntax", report.version = "2.6", shown' = shown /\ unseen' = unseen,
               given' = [given EXCEPT !.message = 0],
               report' = [report EXCEPT !.at = "name", !.leak = (given.message = 1)]
        PROVE  ReportInv'
    <3>1. report' = [at |-> "name", version |-> report.version, todo |-> report.todo, attr
                     |-> report.attr, inspect |-> report.inspect, leak |-> (given.message =
                     1)]
      BY <1>0, <2>2 DEF Proceeds, ReportTypeOK
    <3>2. given' = [fetched |-> given.fetched, second |-> given.second, value |->
                    given.value, message |-> 0]
      BY <1>0, <2>2 DEF ReportTypeOK
    <3>3. report.at = "syntax" /\ report.version = "2.6" /\ shown' = shown /\ unseen' = unseen
      BY <2>2
    <3>4. report' \in [at : ReportPlaces, version : Versions, todo : Todos, attr : 1 .. 6,
                     inspect : BOOLEAN, leak : BOOLEAN]
      BY <1>0, <1>t, <3>1, <3>3 DEF ReportTypeOK, ReportPlaces, Todos
    <3>5. given' \in [fetched : 0 .. 1, second : 0 .. 1, value : 0 .. 1, message : 0 .. 1]
      BY <1>0, <1>t, <3>2, <3>3 DEF ReportTypeOK
    <3>6. GivenInv'
      BY <1>0, <1>t, <3>1, <3>2, <3>3 DEF GivenInv
    <3>7. ReportedInv'
      BY <1>0, <3>1, <3>3 DEF ReportedInv, Pending, Ended
    <3>8. LeakInv'
      BY <1>0, <3>1, <3>3 DEF LeakInv
    <3>9. QED
      BY <1>0, <3>4, <3>5, <3>6, <3>7, <3>8, ReportStep
  <2>3. ASSUME report.at = "syntax", shown' = shown /\ unseen' = unseen, Proceeds("name"),
               given' = [given EXCEPT !.message = 0]
        PROVE  ReportInv'
    <3>1. report' = [at |-> "name", version |-> report.version, todo |-> report.todo, attr
                     |-> report.attr, inspect |-> report.inspect, leak |-> report.leak]
      BY <1>0, <2>3 DEF Proceeds, ReportTypeOK
    <3>2. given' = [fetched |-> given.fetched, second |-> given.second, value |->
                    given.value, message |-> 0]
      BY <1>0, <2>3 DEF ReportTypeOK
    <3>3. report.at = "syntax" /\ shown' = shown /\ unseen' = unseen
      BY <2>3
    <3>4. report' \in [at : ReportPlaces, version : Versions, todo : Todos, attr : 1 .. 6,
                     inspect : BOOLEAN, leak : BOOLEAN]
      BY <1>0, <1>t, <3>1, <3>3 DEF ReportTypeOK, ReportPlaces, Todos
    <3>5. given' \in [fetched : 0 .. 1, second : 0 .. 1, value : 0 .. 1, message : 0 .. 1]
      BY <1>0, <1>t, <3>2, <3>3 DEF ReportTypeOK
    <3>6. GivenInv'
      BY <1>0, <1>t, <3>1, <3>2, <3>3 DEF GivenInv
    <3>7. ReportedInv'
      BY <1>0, <3>1, <3>3 DEF ReportedInv, Pending, Ended
    <3>8. LeakInv'
      BY <1>0, <3>1, <3>3 DEF LeakInv
    <3>9. QED
      BY <1>0, <3>4, <3>5, <3>6, <3>7, <3>8, ReportStep
  <2>4. Len(Attrs) = 5 /\ \A i \in 1 .. 5 : Attrs[i] = "msg" <=> i = 1
    BY DEF Attrs
  <2>5. report.attr <= Len(Attrs) => report.attr \in 1 .. 5
    BY <1>t, <2>4
  <2>6. QED
    BY <1>7, <2>1, <2>2, <2>3, <2>4, <2>5 DEF ReadAttribute, GiveUp26, GiveUp
<1>8. CASE TakeMessage
  <2>1. ASSUME report.at = "syntax", report.attr > 5, shown' = shown /\ unseen' = unseen, Proceeds("name"),
               given' = [given EXCEPT !.value = given.message, !.message = 0]
        PROVE  ReportInv'
    <3>1. report' = [at |-> "name", version |-> report.version, todo |-> report.todo, attr
                     |-> report.attr, inspect |-> report.inspect, leak |-> report.leak]
      BY <1>0, <2>1 DEF Proceeds, ReportTypeOK
    <3>2. given' = [fetched |-> given.fetched, second |-> given.second, value |->
                    given.message, message |-> 0]
      BY <1>0, <2>1 DEF ReportTypeOK
    <3>3. report.at = "syntax" /\ report.attr > 5 /\ shown' = shown /\ unseen' = unseen
      BY <2>1
    <3>4. report' \in [at : ReportPlaces, version : Versions, todo : Todos, attr : 1 .. 6,
                     inspect : BOOLEAN, leak : BOOLEAN]
      BY <1>0, <1>t, <3>1, <3>3 DEF ReportTypeOK, ReportPlaces, Todos
    <3>5. given' \in [fetched : 0 .. 1, second : 0 .. 1, value : 0 .. 1, message : 0 .. 1]
      BY <1>0, <1>t, <3>2, <3>3 DEF ReportTypeOK
    <3>6. GivenInv'
      BY <1>0, <1>t, <3>1, <3>2, <3>3 DEF GivenInv
    <3>7. ReportedInv'
      BY <1>0, <3>1, <3>3 DEF ReportedInv, Pending, Ended
    <3>8. LeakInv'
      BY <1>0, <3>1, <3>3 DEF LeakInv
    <3>9. QED
      BY <1>0, <3>4, <3>5, <3>6, <3>7, <3>8, ReportStep
  <2>2. report.attr > 5
    BY <1>8 DEF TakeMessage, Attrs
  <2>3. QED
    BY <1>8, <2>1, <2>2 DEF TakeMessage
<1>9. CASE WriteValue
  <2>1. ASSUME report.at = "name", shown' = shown /\ unseen' = unseen, given' = given, Proceeds("displayed")
        PROVE  ReportInv'
    <3>1. report' = [at |-> "displayed", version |-> report.version, todo |-> report.todo,
                     attr |-> report.attr, inspect |-> report.inspect, leak |-> report.leak]
      BY <1>0, <2>1 DEF Proceeds, ReportTypeOK
    <3>2. given' = given
      BY <2>1
    <3>3. report.at = "name" /\ shown' = shown /\ unseen' = unseen
      BY <2>1
    <3>4. report' \in [at : ReportPlaces, version : Versions, todo : Todos, attr : 1 .. 6,
                     inspect : BOOLEAN, leak : BOOLEAN]
      BY <1>0, <1>t, <3>1, <3>3 DEF ReportTypeOK, ReportPlaces, Todos
    <3>5. given' \in [fetched : 0 .. 1, second : 0 .. 1, value : 0 .. 1, message : 0 .. 1]
      BY <1>0, <1>t, <3>2, <3>3 DEF ReportTypeOK
    <3>6. GivenInv'
      BY <1>0, <1>t, <3>1, <3>2, <3>3 DEF GivenInv
    <3>7. ReportedInv'
      BY <1>0, <3>1, <3>3 DEF ReportedInv, Pending, Ended
    <3>8. LeakInv'
      BY <1>0, <3>1, <3>3 DEF LeakInv
    <3>9. QED
      BY <1>0, <3>4, <3>5, <3>6, <3>7, <3>8, ReportStep
  <2>2. QED
    BY <1>9, <2>1 DEF WriteValue
<1>10. CASE EndDisplay
  <2>1. ASSUME report.at \in {"displayed", "lost"}, Ended(shown', unseen'),
               given' = [given EXCEPT !.value = given.value - 1],
               report' = [report EXCEPT !.todo = <<>>, !.at = "end"]
        PROVE  ReportInv'
    <3>1. report' = [at |-> "end", version |-> report.version, todo |-> <<>>, attr |->
                     report.attr, inspect |-> report.inspect, leak |-> report.leak]
      BY <1>0, <2>1 DEF Proceeds, ReportTypeOK
    <3>2. given' = [fetched |-> given.fetched, second |-> given.second, value |->
                    given.value - 1, message |-> given.message]
      BY <1>0, <2>1 DEF ReportTypeOK
    <3>3. report.at \in {"displayed", "lost"} /\ Ended(shown', unseen')
      BY <2>1
    <3>4. report' \in [at : ReportPlaces, version : Versions, todo : Todos, attr : 1 .. 6,
                     inspect : BOOLEAN, leak : BOOLEAN]
      BY <1>0, <1>t, <3>1, <3>3 DEF ReportTypeOK, ReportPlaces, Todos
    <3>5. given' \in [fetched : 0 .. 1, second : 0 .. 1, value : 0 .. 1, message : 0 .. 1]
      BY <1>0, <1>t, <3>2, <3>3 DEF ReportTypeOK, GivenInv
    <3>6. GivenInv'
      BY <1>0, <1>t, <3>1, <3>2, <3>3 DEF GivenInv
    <3>7. ReportedInv'
      BY <1>0, <3>1, <3>3 DEF ReportedInv, Pending, Ended
    <3>8. LeakInv'
      BY <1>0, <3>1, <3>3 DEF LeakInv
    <3>9. QED
      BY <1>0, <3>4, <3>5, <3>6, <3>7, <3>8, ReportStep
  <2>2. ASSUME NEW s, NEW u, report.at \in {"displayed", "lost"}, shown' = s /\ unseen' = u,
               (s = <<"second">> /\ u = {}) \/ (s = <<>> /\ u = {"second"}),
               given' = [given EXCEPT !.value = given.value - 1],
               report' = [report EXCEPT !.todo = <<"first">>, !.at = "display"]
        PROVE  ReportInv'
    <3>1. report' = [at |-> "display", version |-> report.version, todo |-> <<"first">>,
                     attr |-> report.attr, inspect |-> report.inspect, leak |-> report.leak]
      BY <1>0, <2>2 DEF Proceeds, ReportTypeOK
    <3>2. given' = [fetched |-> given.fetched, second |-> given.second, value |->
                    given.value - 1, message |-> given.message]
      BY <1>0, <2>2 DEF ReportTypeOK
    <3>3. /\ report.at \in {"displayed", "lost"} /\ shown' = s /\ unseen' = u
          /\ (s = <<"second">> /\ u = {}) \/ (s = <<>> /\ u = {"second"})
      BY <2>2
    <3>4. report' \in [at : ReportPlaces, version : Versions, todo : Todos, attr : 1 .. 6,
                     inspect : BOOLEAN, leak : BOOLEAN]
      BY <1>0, <1>t, <3>1, <3>3 DEF ReportTypeOK, ReportPlaces, Todos
    <3>5. given' \in [fetched : 0 .. 1, second : 0 .. 1, value : 0 .. 1, message : 0 .. 1]
      BY <1>0, <1>t, <3>2, <3>3 DEF ReportTypeOK, GivenInv
    <3>6. GivenInv'
      BY <1>0, <1>t, <3>1, <3>2, <3>3 DEF GivenInv
    <3>7. ReportedInv'
      BY <1>0, <3>1, <3>3 DEF ReportedInv, Pending, Ended
    <3>8. LeakInv'
      BY <1>0, <3>1, <3>3 DEF LeakInv
    <3>9. QED
      BY <1>0, <3>4, <3>5, <3>6, <3>7, <3>8, ReportStep
  <2>3. Pending
    BY <1>0, <1>10 DEF EndDisplay, ReportedInv
  <2>4. Append(<<>>, "first") = <<"first">> /\ Append(<<>>, "second") = <<"second">>
        /\ Append(<<"second">>, "first") = <<"second", "first">>
    BY AppendOne, AppendTwo
  <2>5. /\ given' = [given EXCEPT !.value = given.value - 1]
        /\ \/ /\ report.at = "displayed" /\ unseen' = unseen
              /\ shown' = Append(shown, Head(report.todo))
           \/ /\ report.at = "lost" /\ shown' = shown
              /\ unseen' = unseen \cup {Head(report.todo)}
        /\ report' = [report EXCEPT !.todo = Tail(report.todo),
                                    !.at = IF Len(report.todo) > 1 THEN "display" ELSE "end"]
    BY <1>10, Zenon DEF EndDisplay
  <2>6. CASE report.todo = <<"first">>
    <3>1. Head(report.todo) = "first" /\ Len(report.todo) = 1 /\ Tail(report.todo) = <<>>
      BY <2>6
    <3>2. \/ shown = <<>> /\ unseen \in {{}, {"second"}}
          \/ shown = <<"second">> /\ unseen = {}
      BY <2>3 DEF Pending
    <3>3. Ended(shown', unseen')
      <4>1. CASE report.at = "displayed"
        <5>1. unseen' = unseen /\ shown' = Append(shown, "first")
          BY <2>5, <3>1, <4>1
        <5>2. QED
          BY <2>4, <3>2, <5>1 DEF Ended
      <4>2. CASE report.at = "lost"
        <5>1. shown' = shown /\ unseen' = unseen \cup {"first"}
          BY <2>5, <3>1, <4>2
        <5>2. {"second"} \cup {"first"} = {"second", "first"} /\ {} \cup {"first"} = {"first"}
          OBVIOUS
        <5>3. QED
          BY <3>2, <5>1, <5>2 DEF Ended
      <4>3. QED
        BY <2>5, <4>1, <4>2
    <3>4. report' = [report EXCEPT !.todo = <<>>, !.at = "end"]
      <4>1. (IF Len(report.todo) > 1 THEN "display" ELSE "end") = "end"
        BY <3>1
      <4>2. QED
        BY <2>5, <3>1, <4>1, Zenon
    <3>5. QED
      <4>1. /\ report.at \in {"displayed", "lost"}
            /\ given' = [given EXCEPT !.value = given.value - 1]
        BY <2>5
      <4>2. QED
        BY <2>1, <3>3, <3>4, <4>1, Zenon
  <2>7. CASE report.todo = <<"second", "first">>
    <3>1. Head(report.todo) = "second" /\ Len(report.todo) = 2 /\ Tail(report.todo) = <<"first">>
      BY <2>7
    <3>2. shown = <<>> /\ unseen = {}
      <4>1. <<"first">> # <<"second", "first">>
        BY SeqLens
      <4>2. QED
        BY <2>3, <2>7, <4>1, Zenon DEF Pending
    <3>3. report' = [report EXCEPT !.todo = <<"first">>, !.at = "display"]
      <4>1. (IF Len(report.todo) > 1 THEN "display" ELSE "end") = "display"
        BY <3>1
      <4>2. QED
        BY <2>5, <3>1, <4>1, Zenon
    <3>4. \/ shown' = <<"second">> /\ unseen' = {}
          \/ shown' = <<>> /\ unseen' = {"second"}
      BY <2>4, <2>5, <3>1, <3>2
    <3>5. report.at \in {"displayed", "lost"}
      BY <2>5
    <3>6. QED
      BY <2>2, <2>5, <3>3, <3>4, <3>5
  <2>8. QED
    BY <2>3, <2>6, <2>7, Zenon DEF Pending
<1>11. CASE PickLine
  <2>1. ASSUME report.at = "idle", shown' = shown /\ unseen' = unseen, given' = given, Proceeds("text")
        PROVE  ReportInv'
    <3>1. report' = [at |-> "text", version |-> report.version, todo |-> report.todo, attr
                     |-> report.attr, inspect |-> report.inspect, leak |-> report.leak]
      BY <1>0, <2>1 DEF Proceeds, ReportTypeOK
    <3>2. given' = given
      BY <2>1
    <3>3. report.at = "idle" /\ shown' = shown /\ unseen' = unseen
      BY <2>1
    <3>4. report' \in [at : ReportPlaces, version : Versions, todo : Todos, attr : 1 .. 6,
                     inspect : BOOLEAN, leak : BOOLEAN]
      BY <1>0, <1>t, <3>1, <3>3 DEF ReportTypeOK, ReportPlaces, Todos
    <3>5. given' \in [fetched : 0 .. 1, second : 0 .. 1, value : 0 .. 1, message : 0 .. 1]
      BY <1>0, <1>t, <3>2, <3>3 DEF ReportTypeOK
    <3>6. GivenInv'
      BY <1>0, <1>t, <3>1, <3>2, <3>3 DEF GivenInv
    <3>7. ReportedInv'
      BY <1>0, <3>1, <3>3 DEF ReportedInv, Pending, Ended
    <3>8. LeakInv'
      BY <1>0, <3>1, <3>3 DEF LeakInv
    <3>9. QED
      BY <1>0, <3>4, <3>5, <3>6, <3>7, <3>8, ReportStep
  <2>2. QED
    BY <1>11, <2>1 DEF PickLine
<1>12. CASE UNCHANGED reportVars
  BY <1>0, <1>12 DEF ReportInv, ReportTypeOK, GivenInv, ReportedInv, Pending, LeakInv, reportVars
<1>13. QED
  BY <1>1, <1>2, <1>3, <1>4, <1>5, <1>6, <1>7, <1>8, <1>9, <1>10, <1>11, <1>12 DEF ReportNext

\* The exceptions in the lists of those that are shown.
LEMMA ShownSets ==
  /\ ToSet(<<>>) = {} /\ ToSet(<<"first">>) = {"first"} /\ ToSet(<<"second">>) = {"second"}
  /\ ToSet(<<"second", "first">>) = {"second", "first"}
<1>1. \A u : DOMAIN <<u>> = 1 .. 1 /\ <<u>>[1] = u
  OBVIOUS
<1>2. /\ DOMAIN <<"second", "first">> = 1 .. 2
      /\ <<"second", "first">>[1] = "second" /\ <<"second", "first">>[2] = "first"
  OBVIOUS
<1>3. DOMAIN <<>> = {}
  OBVIOUS
<1>4. \A u : ToSet(<<u>>) = {u}
  BY <1>1 DEF ToSet
<1>5. ToSet(<<"second", "first">>) = {"second", "first"}
  BY <1>2 DEF ToSet
<1>6. ToSet(<<>>) = {}
  BY <1>3 DEF ToSet
<1>7. QED
  BY <1>4, <1>5, <1>6

LEMMA ReportInvRefs == ReportInv => ReportRefs /\ Reported
<1> SUFFICES ASSUME ReportInv PROVE ReportRefs /\ Reported
  OBVIOUS
<1>1. DOMAIN given = {"fetched", "second", "value", "message"}
  BY DEF ReportInv, ReportTypeOK
<1>2. /\ given["fetched"] \in 0 .. 1 /\ given["second"] \in 0 .. 1
      /\ given["value"] \in 0 .. 1 /\ given["message"] \in 0 .. 1
  BY DEF ReportInv, ReportTypeOK
<1>3. report.at = "returned" => /\ given["fetched"] = 0 /\ given["second"] = 0
                                /\ given["value"] = 0 /\ given["message"] = 0
  BY DEF ReportInv, GivenInv
<1>4. QED
  <2>1. ReportRefs
    BY <1>1, <1>2, <1>3 DEF ReportInv, LeakInv, ReportRefs
  <2>2. report.at = "returned" => Ended(shown, unseen)
    BY DEF ReportInv, ReportedInv
  <2>3. Reported
    BY <2>2, ShownSets DEF Reported, Ended
  <2>4. QED
    BY <2>1, <2>3

-----------------------------------------------------------------------------
(* The conversions of object.c.                                            *)

ResultType == [kind : Kinds \cup {"NULL"}, refs : Int, err : BOOLEAN, lost : BOOLEAN,
               unready : BOOLEAN]

\* The outcomes a caller may rely on, when it asked for one of `kinds`.
Good(kinds, old) ==
  {r \in ResultType : /\ r.kind \in kinds \cup {"NULL"}
                      /\ r.err <=> r.kind = "NULL"
                      /\ r.refs = IF r.kind = "NULL" /\ ~r.unready THEN 0 ELSE 1
                      /\ r.unready => r.kind = "NULL"
                      /\ r.lost => old}

LEMMA FailureIs ==
  Failure = [kind |-> "NULL", refs |-> 0, err |-> TRUE, lost |-> FALSE, unready |-> FALSE]
<1> SUFFICES ASSUME NEW u, u = Failure
             PROVE  u = [kind |-> "NULL", refs |-> 0, err |-> TRUE, lost |-> FALSE, unready |-> FALSE]
  OBVIOUS
<1>1. QED
  BY DEF Failure, Got

LEMMA GotGood ==
  ASSUME NEW kinds, NEW old, NEW kind \in Kinds, kind \in kinds
  PROVE  Got(kind) \in Good(kinds, old)
<1>1. Got(kind) \in ResultType
  BY DEF ResultType, Got
<1>2. QED
  BY <1>1 DEF Good, Got, Kinds

LEMMA FailureGood == ASSUME NEW kinds, NEW old PROVE Failure \in Good(kinds, old)
<1>1. Failure \in ResultType
  BY FailureIs DEF ResultType
<1>2. QED
  BY <1>1, FailureIs DEF Good

LEMMA FreshGood ==
  ASSUME NEW kinds, NEW old, NEW kind \in Kinds, kind \in kinds
  PROVE  Fresh(kind) \subseteq Good(kinds, old)
BY GotGood, FailureGood DEF Fresh

LEMMA CalledGood == ASSUME NEW old PROVE Called \subseteq Good(Kinds, old)
BY GotGood, FailureGood DEF Called

LEMMA GoodOfMore ==
  ASSUME NEW more, NEW kinds \in SUBSET more, NEW old
  PROVE  Good(kinds, old) \subseteq Good(more, old)
BY DEF Good

LEMMA DroppedGood ==
  ASSUME NEW kinds, NEW more, NEW old, NEW r \in Good(more, old), r.kind # "NULL"
  PROVE  Dropped(r) \in Good(kinds, old)
<1>1. r \in ResultType /\ r.refs = 1 /\ (r.lost => old) /\ ~r.unready
  BY DEF Good
<1> SUFFICES ASSUME NEW u, u = Dropped(r) PROVE u \in Good(kinds, old)
  OBVIOUS
<1>2. u.kind = "NULL" /\ u.refs = 0 /\ u.err /\ u.lost = r.lost /\ u.unready = r.unready
  BY <1>1 DEF Dropped, ResultType
<1>3. u \in ResultType
  <2>1. r.refs - 1 = 0
    BY <1>1
  <2>2. u = [r EXCEPT !.kind = "NULL", !.refs = 0, !.err = TRUE]
    BY <2>1, Zenon DEF Dropped
  <2>3. u = [kind |-> "NULL", refs |-> 0, err |-> TRUE, lost |-> r.lost, unready |-> r.unready]
    BY <1>1, <2>2 DEF ResultType
  <2>4. r.lost \in BOOLEAN /\ r.unready \in BOOLEAN /\ 0 \in Int
    BY <1>1 DEF ResultType
  <2>5. QED
    BY <2>3, <2>4 DEF ResultType
<1>4. QED
  BY <1>1, <1>2, <1>3 DEF Good

\* What is of a wrong type becomes an exception.
LEMMA TypedGood ==
  ASSUME NEW kinds, NEW more, NEW old, NEW r \in Good(more, old)
  PROVE  Typed(r, kinds) \in Good(kinds, old)
<1>1. CASE r.kind \in kinds \cup {"NULL"}
  BY <1>1 DEF Typed, Good
<1>2. CASE r.kind \notin kinds \cup {"NULL"}
  BY <1>2, DroppedGood DEF Typed
<1>3. QED
  BY <1>1, <1>2

\* What is of another type is converted, or becomes an exception.
LEMMA RecodedGood ==
  ASSUME NEW kind \in Kinds, NEW more, NEW old, NEW r \in Good(more, old)
  PROVE  Recoded(r, kind) \subseteq Good({kind}, old)
<1>1. CASE r.kind \in {kind, "NULL"}
  BY <1>1 DEF Recoded, Good
<1>2. CASE r.kind \notin {kind, "NULL"}
  <2>1. r \in ResultType /\ ~r.err /\ r.refs = 1 /\ ~r.unready /\ (r.lost => old)
    BY <1>2 DEF Good
  <2>2. [r EXCEPT !.kind = kind] =
          [kind |-> kind, refs |-> r.refs, err |-> r.err, lost |-> r.lost, unready |-> r.unready]
    BY <2>1 DEF ResultType
  <2>3. [r EXCEPT !.kind = kind] \in ResultType
    BY <2>1, <2>2 DEF ResultType
  <2>4. kind # "NULL"
    BY DEF Kinds
  <2>5. [r EXCEPT !.kind = kind] \in Good({kind}, old)
    BY <2>1, <2>2, <2>3, <2>4 DEF Good
  <2>6. Dropped(r) \in Good({kind}, old)
    BY <1>2, DroppedGood
  <2>7. QED
    BY <1>2, <2>5, <2>6 DEF Recoded
<1>3. QED
  BY <1>1, <1>2

\* A reference is left over when a result cannot be made ready.
LEMMA ReadyGood ==
  ASSUME NEW old, NEW r \in Good({"unicode"}, old)
  PROVE  Ready(r) \subseteq Good({"unicode"}, old)
<1>1. CASE r.kind # "unicode"
  BY <1>1 DEF Ready
<1>2. CASE r.kind = "unicode"
  <2> DEFINE u == [r EXCEPT !.kind = "NULL", !.err = TRUE, !.unready = TRUE]
  <2>1. r \in ResultType /\ r.refs = 1 /\ (r.lost => old)
    BY <1>2 DEF Good
  <2>2. ASSUME NEW w, w = u
        PROVE  w.kind = "NULL" /\ w.refs = r.refs /\ w.err /\ w.lost = r.lost /\ w.unready
    BY <2>1, <2>2 DEF ResultType
  <2>3. ASSUME NEW w, w = u PROVE w \in ResultType
    BY <2>1, <2>3 DEF ResultType
  <2>4. ASSUME NEW w, w = u PROVE w \in Good({"unicode"}, old)
    <3> HIDE DEF u
    <3>1. QED
      BY <2>1, <2>2, <2>3, <2>4 DEF Good
  <2>5. QED
    BY <1>2, <2>4 DEF Ready
<1>3. QED
  BY <1>1, <1>2

LEMMA SwallowedGood ==
  ASSUME NEW kinds, NEW old, old, NEW results \in SUBSET Good(kinds, old)
  PROVE  Swallowed(results) \subseteq Good(kinds, old)
<1> SUFFICES ASSUME NEW r \in Good(kinds, old) PROVE [r EXCEPT !.lost = TRUE] \in Good(kinds, old)
  BY DEF Swallowed
<1>1. r \in ResultType
  BY DEF Good
<1>2. ASSUME NEW u, u = [r EXCEPT !.lost = TRUE]
      PROVE  u = [kind |-> r.kind, refs |-> r.refs, err |-> r.err, lost |-> TRUE, unready |-> r.unready]
  BY <1>1, <1>2 DEF ResultType
<1>3. [r EXCEPT !.lost = TRUE] \in ResultType
  BY <1>1, <1>2 DEF ResultType
<1>4. QED
  BY <1>2, <1>3 DEF Good

LEMMA KindsAre == "bytes" \in Kinds /\ "unicode" \in Kinds /\ {"bytes", "unicode"} \subseteq Kinds
BY DEF Kinds

LEMMA Repr27Good == ASSUME NEW v PROVE Repr27(v) \subseteq Good({"bytes"}, v.old)
<1> DEFINE old == v.old
<1>1. Failure \in Good({"bytes"}, old) /\ Fresh("bytes") \subseteq Good({"bytes"}, old)
  BY FailureGood, FreshGood, KindsAre
<1>2. ASSUME NEW res \in Called
      PROVE  Recoded(res, "bytes") \subseteq Good({"bytes"}, old)
             /\ Typed(res, {"bytes"}) \in Good({"bytes"}, old)
  <2>1. res \in Good(Kinds, old)
    BY CalledGood
  <2>2. QED
    BY <2>1, RecodedGood, TypedGood, KindsAre
<1> HIDE DEF old
<1>3. QED
  BY <1>1, <1>2 DEF Repr27, old

LEMMA StrOrUnicode27Good ==
  ASSUME NEW v \in AnyValue
  PROVE  StrOrUnicode27(v) \subseteq Good({"bytes", "unicode"}, v.old)
<1> DEFINE good == Good({"bytes", "unicode"}, v.old)
<1>1. Failure \in good /\ Fresh("bytes") \subseteq good
      /\ Got("bytes") \in good /\ Got("unicode") \in good
  BY FailureGood, FreshGood, GotGood, KindsAre
<1>2. ASSUME NEW res \in Called PROVE Typed(res, {"bytes", "unicode"}) \in good
  BY CalledGood, TypedGood
<1>3. Repr27(v) \subseteq good
  BY Repr27Good, GoodOfMore
<1> HIDE DEF good
<1>4. ASSUME v.kind = "NULL" PROVE StrOrUnicode27(v) \subseteq good
  BY <1>1, <1>4 DEF StrOrUnicode27
<1>5. ASSUME v.kind \in {"bytes", "unicode"} /\ v.exact PROVE StrOrUnicode27(v) \subseteq good
  BY <1>1, <1>5 DEF StrOrUnicode27
<1>6. ASSUME v.kind # "NULL" /\ (v.kind = "other" \/ ~v.exact) PROVE StrOrUnicode27(v) \subseteq good
  BY <1>1, <1>2, <1>3, <1>6 DEF StrOrUnicode27
<1>7. QED
  BY <1>4, <1>5, <1>6 DEF good, AnyValue, Kinds

LEMMA Str27Good == ASSUME NEW v \in AnyValue PROVE Str27(v) \subseteq Good({"bytes"}, v.old)
BY StrOrUnicode27Good, RecodedGood, KindsAre DEF Str27

LEMMA NoMethodGood == ASSUME NEW v \in AnyValue PROVE NoMethod(v) \subseteq Good(Kinds, v.old)
<1> DEFINE good == Good(Kinds, v.old)
<1>1. Fresh("unicode") \subseteq good /\ Got("bytes") \in good /\ Called \subseteq good
  BY FreshGood, GotGood, CalledGood, KindsAre
<1>2. Repr27(v) \subseteq good
  BY Repr27Good, GoodOfMore, KindsAre
<1> HIDE DEF good
<1>3. ASSUME v.kind = "unicode" PROVE NoMethod(v) \subseteq good
  BY <1>1, <1>3 DEF NoMethod
<1>4. ASSUME v.kind = "bytes" /\ v.exact PROVE NoMethod(v) \subseteq good
  BY <1>1, <1>4 DEF NoMethod
<1>5. ASSUME v.kind # "unicode" /\ ~(v.kind = "bytes" /\ v.exact) PROVE NoMethod(v) \subseteq good
  BY <1>1, <1>2, <1>5 DEF NoMethod
<1>6. QED
  BY <1>3, <1>4, <1>5 DEF good

LEMMA NotFoundGood ==
  ASSUME NEW v \in AnyValue
  PROVE  NotFound(v) \subseteq Good(Kinds, v.old) /\ NotFound26(v) \subseteq Good(Kinds, v.old)
<1>1. NoMethod(v) \subseteq Good(Kinds, v.old) /\ Failure \in Good(Kinds, v.old)
  BY NoMethodGood, FailureGood
<1>2. CASE v.old
  <2>1. Swallowed(NoMethod(v)) \subseteq Good(Kinds, v.old)
    BY <1>1, <1>2, SwallowedGood
  <2>2. QED
    BY <1>2, <2>1 DEF NotFound, NotFound26
<1>3. CASE ~v.old
  BY <1>1, <1>3 DEF NotFound, NotFound26
<1>4. QED
  BY <1>2, <1>3

LEMMA UnicodeGood ==
  ASSUME NEW v \in AnyValue, NEW otherwise \in SUBSET Good(Kinds, v.old)
  PROVE  Unicode(v, otherwise) \subseteq Good({"unicode"}, v.old)
<1> DEFINE good == Good({"unicode"}, v.old)
<1>1. Got("unicode") \in good
  BY GotGood, KindsAre
<1>2. ASSUME NEW res \in Fresh("bytes") PROVE Recoded(res, "unicode") \subseteq good
  BY FreshGood, RecodedGood, KindsAre
<1>3. ASSUME NEW res \in Called \cup otherwise PROVE Recoded(res, "unicode") \subseteq good
  <2>1. res \in Good(Kinds, v.old)
    BY CalledGood
  <2>2. QED
    BY <2>1, RecodedGood, KindsAre
<1> HIDE DEF good
<1>4. ASSUME v.kind = "NULL" PROVE Unicode(v, otherwise) \subseteq good
  BY <1>2, <1>4 DEF Unicode
<1>5. ASSUME v.kind = "unicode" /\ v.exact PROVE Unicode(v, otherwise) \subseteq good
  BY <1>1, <1>5 DEF Unicode
<1>6. ASSUME v.kind # "NULL" /\ ~(v.kind = "unicode" /\ v.exact) PROVE Unicode(v, otherwise) \subseteq good
  BY <1>3, <1>6 DEF Unicode
<1>7. QED
  BY <1>4, <1>5, <1>6 DEF good

LEMMA Method33Good == ASSUME NEW old PROVE Method33 \subseteq Good({"unicode"}, old)
<1>1. ASSUME NEW res \in Called PROVE Ready(Typed(res, {"unicode"})) \subseteq Good({"unicode"}, old)
  <2>1. Typed(res, {"unicode"}) \in Good({"unicode"}, old)
    BY CalledGood, TypedGood
  <2>2. QED
    BY <2>1, ReadyGood
<1>2. QED
  BY <1>1 DEF Method33

LEMMA Repr33Good == ASSUME NEW v PROVE Repr33(v) \subseteq Good({"unicode"}, v.old)
<1>1. Failure \in Good({"unicode"}, v.old) /\ Fresh("unicode") \subseteq Good({"unicode"}, v.old)
      /\ Method33 \subseteq Good({"unicode"}, v.old)
  BY FailureGood, FreshGood, Method33Good, KindsAre
<1>2. QED
  BY <1>1 DEF Repr33

LEMMA Str33Good == ASSUME NEW v PROVE Str33(v) \subseteq Good({"unicode"}, v.old)
<1> DEFINE good == Good({"unicode"}, v.old)
<1>1. Failure \in good /\ Fresh("unicode") \subseteq good /\ Method33 \subseteq good
      /\ Repr33(v) \subseteq good
  BY FailureGood, FreshGood, Method33Good, Repr33Good, KindsAre
<1> HIDE DEF good
<1>2. ASSUME v.kind = "NULL" \/ (v.kind = "unicode" /\ v.exact) PROVE Str33(v) \subseteq good
  BY <1>1, <1>2 DEF Str33
<1>3. ASSUME v.kind # "NULL" /\ ~(v.kind = "unicode" /\ v.exact) PROVE Str33(v) \subseteq good
  BY <1>1, <1>3 DEF Str33
<1>4. QED
  BY <1>2, <1>3 DEF good

LEMMA Ascii33Good == ASSUME NEW v PROVE Ascii33(v) \subseteq Good({"unicode"}, v.old)
<1>1. ASSUME NEW repr \in Repr33(v) PROVE Recoded(repr, "bytes") \subseteq Good({"bytes"}, v.old)
  BY Repr33Good, RecodedGood, KindsAre
<1>2. ASSUME NEW ascii \in UNION {Recoded(repr, "bytes") : repr \in Repr33(v)}
      PROVE  Recoded(ascii, "unicode") \subseteq Good({"unicode"}, v.old)
  <2>1. ascii \in Good({"bytes"}, v.old)
    BY <1>1
  <2>2. QED
    BY <2>1, RecodedGood, KindsAre
<1>3. QED
  BY <1>2 DEF Ascii33

LEMMA Bytes33Good == ASSUME NEW v PROVE Bytes33(v) \subseteq Good({"bytes"}, v.old)
<1> DEFINE good == Good({"bytes"}, v.old)
<1>1. Failure \in good /\ Fresh("bytes") \subseteq good /\ Got("bytes") \in good
  BY FailureGood, FreshGood, GotGood, KindsAre
<1>2. ASSUME NEW res \in Called PROVE Typed(res, {"bytes"}) \in good
  BY CalledGood, TypedGood
<1> HIDE DEF good
<1>3. ASSUME v.kind = "NULL" PROVE Bytes33(v) \subseteq good
  BY <1>1, <1>3 DEF Bytes33
<1>4. ASSUME v.kind = "bytes" /\ v.exact PROVE Bytes33(v) \subseteq good
  BY <1>1, <1>4 DEF Bytes33
<1>5. ASSUME v.kind # "NULL" /\ ~(v.kind = "bytes" /\ v.exact) PROVE Bytes33(v) \subseteq good
  BY <1>1, <1>2, <1>5 DEF Bytes33
<1>6. QED
  BY <1>3, <1>4, <1>5 DEF good

\* Every function keeps what it promises, for every value.
LEMMA OutcomesGood ==
  ASSUME NEW c \in Calls, NEW v \in AnyValue
  PROVE  Outcomes(c, v) \subseteq Good(Promised(c), v.old)
<1>1. CASE c = "Repr27"
  <2>1. Outcomes(c, v) = Repr27(v) /\ Promised(c) = {"bytes"}
    BY <1>1 DEF Outcomes, Promised
  <2>2. Repr27(v) \subseteq Good({"bytes"}, v.old)
    BY Repr27Good
  <2>3. QED
    BY <2>1, <2>2
<1>2. CASE c = "StrOrUnicode27"
  <2>1. Outcomes(c, v) = StrOrUnicode27(v) /\ Promised(c) = {"bytes", "unicode"}
    BY <1>2 DEF Outcomes, Promised
  <2>2. StrOrUnicode27(v) \subseteq Good({"bytes", "unicode"}, v.old)
    BY StrOrUnicode27Good
  <2>3. QED
    BY <2>1, <2>2
<1>3. CASE c = "Str27"
  <2>1. Outcomes(c, v) = Str27(v) /\ Promised(c) = {"bytes"}
    BY <1>3 DEF Outcomes, Promised
  <2>2. Str27(v) \subseteq Good({"bytes"}, v.old)
    BY Str27Good
  <2>3. QED
    BY <2>1, <2>2
<1>4. CASE c = "Unicode26"
  <2>1. Outcomes(c, v) = Unicode26(v) /\ Promised(c) = {"unicode"}
    BY <1>4 DEF Outcomes, Promised
  <2>2. Unicode26(v) \subseteq Good({"unicode"}, v.old)
    BY NotFoundGood, UnicodeGood DEF Unicode26
  <2>3. QED
    BY <2>1, <2>2
<1>5. CASE c = "Unicode27"
  <2>1. Outcomes(c, v) = Unicode27(v) /\ Promised(c) = {"unicode"}
    BY <1>5 DEF Outcomes, Promised
  <2>2. Unicode27(v) \subseteq Good({"unicode"}, v.old)
    BY NotFoundGood, UnicodeGood DEF Unicode27
  <2>3. QED
    BY <2>1, <2>2
<1>6. CASE c = "Repr33"
  <2>1. Outcomes(c, v) = Repr33(v) /\ Promised(c) = {"unicode"}
    BY <1>6 DEF Outcomes, Promised
  <2>2. Repr33(v) \subseteq Good({"unicode"}, v.old)
    BY Repr33Good
  <2>3. QED
    BY <2>1, <2>2
<1>7. CASE c = "Str33"
  <2>1. Outcomes(c, v) = Str33(v) /\ Promised(c) = {"unicode"}
    BY <1>7 DEF Outcomes, Promised
  <2>2. Str33(v) \subseteq Good({"unicode"}, v.old)
    BY Str33Good
  <2>3. QED
    BY <2>1, <2>2
<1>8. CASE c = "Ascii33"
  <2>1. Outcomes(c, v) = Ascii33(v) /\ Promised(c) = {"unicode"}
    BY <1>8 DEF Outcomes, Promised
  <2>2. Ascii33(v) \subseteq Good({"unicode"}, v.old)
    BY Ascii33Good
  <2>3. QED
    BY <2>1, <2>2
<1>9. CASE c = "Bytes33"
  <2>1. Outcomes(c, v) = Bytes33(v) /\ Promised(c) = {"bytes"}
    BY <1>9 DEF Outcomes, Promised
  <2>2. Bytes33(v) \subseteq Good({"bytes"}, v.old)
    BY Bytes33Good
  <2>3. QED
    BY <2>1, <2>2
<1>10. QED
  BY <1>1, <1>2, <1>3, <1>4, <1>5, <1>6, <1>7, <1>8, <1>9 DEF Calls

ConvertInv ==
  converted.call # "none" =>
    converted.res \in Good(Promised(converted.call), converted.value.old)

LEMMA ConvertInitInv == ConvertInit => ConvertInv
BY DEF ConvertInit, ConvertInv

LEMMA ConvertNextInv == ConvertInv /\ [Convert]_converted => ConvertInv'
<1> SUFFICES ASSUME ConvertInv, [Convert]_converted PROVE ConvertInv'
  OBVIOUS
<1>1. CASE Convert
  <2>1. PICK c \in Calls, v \in AnyValue : \E res \in Outcomes(c, v) :
               converted' = [call |-> c, value |-> v, res |-> res]
    BY <1>1 DEF Convert
  <2>2. PICK res \in Outcomes(c, v) : converted' = [call |-> c, value |-> v, res |-> res]
    BY <2>1
  <2>3. converted'.call = c /\ converted'.value = v /\ converted'.res = res
    BY <2>2
  <2>4. res \in Good(Promised(c), v.old)
    BY OutcomesGood
  <2>5. QED
    BY <2>3, <2>4 DEF ConvertInv
<1>2. CASE UNCHANGED converted
  BY <1>2 DEF ConvertInv
<1>3. QED
  BY <1>1, <1>2

LEMMA ConvertInvKeeps == ConvertInv => TypeOrError /\ ConversionRefs /\ LookupFails
BY DEF ConvertInv, Good, TypeOrError, ConversionRefs, LookupFails

-----------------------------------------------------------------------------
(* PyErr_Display() of 3.3.                                                 *)

Links == {"cause", "context"}
CallSet == [value : Raised, link : Links \cup {"enter", "last"}]

PrintTypeOK ==
  /\ cause \in [Raised -> Raised \cup {NoException}]
  /\ context \in [Raised -> Raised \cup {NoException}]
  /\ suppress \in [Raised -> BOOLEAN]
  /\ seen \subseteq Raised
  /\ prints \in Seq(CallSet)
  /\ out \in Seq(CallSet)

\* The calls go down, each to what led to its exception; the last one begins
\* to print, and the others follow it.
LinksInv ==
  /\ \A i \in 1 .. Len(prints) - 1 : prints[i].link \in Links
  /\ Len(prints) > 0 =>
       prints[Len(prints)].link \in (IF Len(out) = 0 THEN {"enter", "last"} ELSE Links)
  /\ \A i \in 1 .. Len(out) : out[i].link \in (IF i = 1 THEN {"last"} ELSE Links)

\* While the calls go down, the set is that of their exceptions.
SeenInv ==
  /\ Len(prints) = 0 /\ Len(out) = 0 => seen = {}
  /\ Len(prints) > 0 /\ prints[Len(prints)].link = "enter" =>
       seen = {prints[i].value : i \in 1 .. Len(prints) - 1}

\* No exception is like another one that is, or was, printed.
Unlike(s, t) == \A i \in 1 .. Len(s), j \in 1 .. Len(t) : Alike[s[i].value] # Alike[t[j].value]
Distinct(s) == \A i, j \in 1 .. Len(s) : Alike[s[i].value] = Alike[s[j].value] => i = j
DistinctInv == Distinct(prints) /\ Distinct(out) /\ Unlike(prints, out)

\* Each is linked to the one that is printed before it.
LedInv ==
  ~relinked =>
    /\ \A i \in 1 .. Len(prints) - 1 :
         Led(prints[i + 1].value, prints[i].value, prints[i].link)
    /\ \A i \in 2 .. Len(out) : Led(out[i - 1].value, out[i].value, out[i].link)
    /\ Len(prints) > 0 /\ Len(out) > 0 =>
         Led(out[Len(out)].value, prints[Len(prints)].value, prints[Len(prints)].link)

\* What led to the first that is printed is like one of them.
Known(e) ==
  \/ \E i \in 1 .. Len(prints) : Alike[prints[i].value] = Alike[e]
  \/ \E i \in 1 .. Len(out) : Alike[out[i].value] = Alike[e]
Whole(b) == \A e \in Raised, link \in Links : Led(e, b, link) => Known(e)

WholeInv ==
  ~relinked /\ ~failed /\ chained =>
    /\ Len(out) > 0 => Whole(out[1].value)
    /\ Len(out) = 0 /\ Len(prints) > 0 /\ prints[Len(prints)].link = "last" =>
         Whole(prints[Len(prints)].value)

PrintInv == PrintTypeOK /\ LinksInv /\ SeenInv /\ DistinctInv /\ LedInv /\ WholeInv

LEMMA PrintInitInv == PrintInit => PrintInv
<1> SUFFICES ASSUME PrintInit PROVE PrintInv
  OBVIOUS
<1>1. prints = <<>> /\ out = <<>> /\ seen = {} /\ Len(prints) = 0 /\ Len(out) = 0
  BY DEF PrintInit
<1>2. PrintTypeOK
  BY DEF PrintInit, PrintTypeOK
<1>3. LinksInv /\ SeenInv /\ DistinctInv /\ LedInv /\ WholeInv
  BY <1>1 DEF LinksInv, SeenInv, DistinctInv, Distinct, Unlike, LedInv, WholeInv
<1>4. QED
  BY <1>2, <1>3 DEF PrintInv

\* The last of a sequence, and the others.
LEMMA FrontIs ==
  ASSUME NEW S, NEW s \in Seq(S), s # <<>>
  PROVE  /\ Len(s) \in Nat \ {0} /\ Last(s) = s[Len(s)] /\ Last(s) \in S
         /\ Front(s) \in Seq(S) /\ Len(Front(s)) = Len(s) - 1
         /\ \A i \in 1 .. Len(s) - 1 : Front(s)[i] = s[i]
<1> DEFINE k == Len(s) - 1
<1>1. Len(s) \in Nat \ {0}
  BY EmptySeq
<1>2. k \in Int /\ 1 \in Int /\ k \in Nat /\ Len(s) = k + 1
  BY <1>1
<1>3. Front(s) = SubSeq(s, 1, k) /\ Last(s) = s[Len(s)] /\ Last(s) \in S
  BY <1>1 DEF Front, Last
<1>4. \A i \in 1 .. k : s[i] \in S
  BY <1>1
<1> HIDE DEF k
<1>5. /\ SubSeq(s, 1, k) \in Seq(S)
      /\ Len(SubSeq(s, 1, k)) = IF 1 <= k THEN k - 1 + 1 ELSE 0
      /\ \A i \in 1 .. k - 1 + 1 : SubSeq(s, 1, k)[i] = s[1 + i - 1]
  BY <1>2, <1>4, SubSeqProperties
<1>6. Len(Front(s)) = k /\ \A i \in 1 .. k : Front(s)[i] = s[i]
  BY <1>2, <1>3, <1>5
<1>7. QED
  BY <1>1, <1>3, <1>5, <1>6 DEF k

\* The link of the last call is set.
LEMMA LinkedIs ==
  ASSUME PrintTypeOK, prints # <<>>, NEW link \in Links \cup {"last"}
  PROVE  /\ Linked(link) \in Seq(CallSet) /\ Len(Linked(link)) = Len(prints)
         /\ \A i \in 1 .. Len(prints) :
              /\ Linked(link)[i].value = prints[i].value
              /\ Linked(link)[i].link = IF i = Len(prints) THEN link ELSE prints[i].link
<1> DEFINE n == Len(prints)
<1>1. n \in Nat \ {0} /\ prints \in Seq(CallSet) /\ n \in 1 .. Len(prints)
  BY EmptySeq DEF PrintTypeOK
<1>2. prints[n] \in CallSet
  BY <1>1
<1>3. [prints[n] EXCEPT !.link = link] = [value |-> prints[n].value, link |-> link]
  BY <1>2 DEF CallSet
<1>4. [prints[n] EXCEPT !.link = link] \in CallSet
  BY <1>2, <1>3 DEF CallSet
<1>5. Linked(link) = [prints EXCEPT ![n] = [prints[n] EXCEPT !.link = link]]
  BY DEF Linked
<1> HIDE DEF n
<1>6. Linked(link) \in Seq(CallSet) /\ Len(Linked(link)) = Len(prints)
      /\ \A i \in 1 .. Len(prints) :
           Linked(link)[i] = IF i = n THEN [prints[n] EXCEPT !.link = link] ELSE prints[i]
  BY <1>1, <1>4, <1>5, ExceptSeq
<1>7. QED
  BY <1>1, <1>3, <1>6 DEF n

\* What led to an exception, and how.
LEMMA LinkOfIs ==
  ASSUME PrintTypeOK, NEW b \in Raised
  PROVE  /\ LinkOf(b).to \in Raised \cup {NoException}
         /\ LinkOf(b).to # NoException =>
              LinkOf(b).link \in Links /\ Led(LinkOf(b).to, b, LinkOf(b).link)
         /\ \A e \in Raised, link \in Links : Led(e, b, link) => LinkOf(b).to = e
<1>0. cause[b] \in Raised \cup {NoException} /\ context[b] \in Raised \cup {NoException}
      /\ NoException \notin Raised
  BY PrintingAssumption DEF PrintTypeOK
<1>1. ASSUME cause[b] # NoException PROVE LinkOf(b) = [link |-> "cause", to |-> cause[b]]
  BY <1>1 DEF LinkOf
<1>2. ASSUME cause[b] = NoException, context[b] # NoException, ~suppress[b]
      PROVE  LinkOf(b) = [link |-> "context", to |-> context[b]]
  BY <1>2 DEF LinkOf
<1>3. ASSUME cause[b] = NoException, context[b] = NoException \/ suppress[b]
      PROVE  LinkOf(b) = [link |-> "last", to |-> NoException]
  BY <1>3 DEF LinkOf
<1>4. CASE cause[b] # NoException
  <2>1. LinkOf(b).link = "cause" /\ LinkOf(b).to = cause[b]
    BY <1>1, <1>4
  <2>2. QED
    BY <1>0, <1>4, <2>1 DEF Led, Links
<1>5. CASE cause[b] = NoException /\ context[b] # NoException /\ ~suppress[b]
  <2>1. LinkOf(b).link = "context" /\ LinkOf(b).to = context[b]
    BY <1>2, <1>5
  <2>2. QED
    BY <1>0, <1>5, <2>1 DEF Led, Links
<1>6. CASE cause[b] = NoException /\ (context[b] = NoException \/ suppress[b])
  <2>1. LinkOf(b).to = NoException
    BY <1>3, <1>6
  <2>2. QED
    BY <1>0, <1>6, <2>1 DEF Led, Links
<1>7. QED
  BY <1>4, <1>5, <1>6

\* A call that does not go further down begins to print.
LEMMA LastCall ==
  ASSUME PrintInv, prints # <<>>, prints[Len(prints)].link = "enter",
         prints' = Linked("last"), out' = out, seen' \in SUBSET Raised,
         UNCHANGED <<links, chained, relinked>>,
         chained /\ ~failed' /\ ~relinked => Whole(prints[Len(prints)].value)
  PROVE  PrintInv'
<1> DEFINE n == Len(prints)
<1>0. PrintTypeOK /\ LinksInv /\ SeenInv /\ DistinctInv /\ LedInv /\ WholeInv
  BY DEF PrintInv
<1>1. n \in Nat \ {0} /\ Len(out) \in Nat
  BY <1>0, EmptySeq DEF PrintTypeOK
<1>2. Len(out) = 0
  BY <1>0, <1>1 DEF LinksInv, Links
<1>3. prints' \in Seq(CallSet) /\ Len(prints') = n
      /\ \A i \in 1 .. n : /\ prints'[i].value = prints[i].value
                           /\ prints'[i].link = IF i = n THEN "last" ELSE prints[i].link
  BY <1>0, LinkedIs
<1>4. cause' = cause /\ context' = context /\ suppress' = suppress
  BY DEF links
<1> HIDE DEF n
<1>5. PrintTypeOK'
  BY <1>0, <1>3 DEF PrintTypeOK, links
<1>6. LinksInv'
  BY <1>0, <1>1, <1>2, <1>3 DEF LinksInv, n
<1>7. SeenInv'
  BY <1>1, <1>3 DEF SeenInv
<1>8. DistinctInv'
  BY <1>0, <1>1, <1>2, <1>3 DEF DistinctInv, Distinct, Unlike, n
<1>9. LedInv'
  <2>1. ~relinked => \A i \in 1 .. n - 1 : Led(prints[i + 1].value, prints[i].value, prints[i].link)
    BY <1>0 DEF LedInv, n
  <2>2. ~relinked => \A i \in 1 .. n - 1 :
                       Led(prints'[i + 1].value, prints'[i].value, prints'[i].link)
    BY <1>1, <1>3, <2>1
  <2>3. relinked' = relinked
    OBVIOUS
  <2>4. QED
    BY <1>1, <1>2, <1>3, <1>4, <2>2, <2>3 DEF LedInv, Led, links
<1>10. WholeInv'
  <2>1. ASSUME NEW e, Known(e) PROVE Known(e)'
    BY <1>2, <1>3, <2>1 DEF Known, n
  <2>2. ASSUME NEW b, Whole(b), b = prints'[n].value PROVE Whole(prints[Len(prints)].value)'
    BY <1>3, <1>4, <2>1, <2>2 DEF Whole, Led
  <2>3. prints'[n].value = prints[n].value
    BY <1>1, <1>3
  <2>4. chained' /\ ~failed' /\ ~relinked' => Whole(prints[Len(prints)].value)'
    BY <2>2, <2>3 DEF n
  <2>5. QED
    BY <1>2, <2>4 DEF WholeInv
<1>11. QED
  BY <1>5, <1>6, <1>7, <1>8, <1>9, <1>10 DEF PrintInv

\* A call goes down to what led to its exception.
LEMMA NestedCall ==
  ASSUME PrintInv, prints # <<>>, prints[Len(prints)].link = "enter",
         NEW link \in Links, NEW e \in Raised,
         Led(e, prints[Len(prints)].value, link),
         prints' = Append(Linked(link), Nested(e)), out' = out,
         seen' = seen \cup {prints[Len(prints)].value}, ~Has(seen', e),
         UNCHANGED <<links, chained, relinked>>
  PROVE  PrintInv'
<1> DEFINE n == Len(prints)
<1>0. PrintTypeOK /\ LinksInv /\ SeenInv /\ DistinctInv /\ LedInv
  BY DEF PrintInv
<1>1. n \in Nat \ {0} /\ Len(out) \in Nat /\ prints[n] \in CallSet
  BY <1>0, EmptySeq DEF PrintTypeOK
<1>2. Len(out) = 0
  BY <1>0, <1>1 DEF LinksInv, Links
<1>3. Linked(link) \in Seq(CallSet) /\ Len(Linked(link)) = n
      /\ \A i \in 1 .. n : /\ Linked(link)[i].value = prints[i].value
                           /\ Linked(link)[i].link = IF i = n THEN link ELSE prints[i].link
  BY <1>0, LinkedIs
<1>4. Nested(e) \in CallSet /\ Nested(e).value = e /\ Nested(e).link = "enter"
  BY DEF Nested, CallSet
<1>5. prints' \in Seq(CallSet) /\ Len(prints') = n + 1 /\ prints'[n + 1] = Nested(e)
      /\ \A i \in 1 .. n : prints'[i] = Linked(link)[i]
  BY <1>3, <1>4, AppendProperties
<1>6. /\ prints'[n + 1].value = e /\ prints'[n + 1].link = "enter"
      /\ \A i \in 1 .. n : /\ prints'[i].value = prints[i].value
                           /\ prints'[i].link = IF i = n THEN link ELSE prints[i].link
  BY <1>3, <1>4, <1>5
<1>7. seen = {prints[i].value : i \in 1 .. n - 1}
  BY <1>0, <1>1 DEF SeenInv
<1>8. seen' = {prints[i].value : i \in 1 .. n}
  BY <1>1, <1>7
<1>9. cause' = cause /\ context' = context /\ suppress' = suppress /\ relinked' = relinked
  BY DEF links
<1>10. Led(e, prints[n].value, link)
  OBVIOUS
<1>11. \A i \in 1 .. n : Alike[prints[i].value] # Alike[e]
  BY <1>8 DEF Has
<1> HIDE DEF n
<1>12. PrintTypeOK'
  BY <1>0, <1>1, <1>5, <1>9 DEF PrintTypeOK, CallSet, n
<1>13. LinksInv'
  BY <1>0, <1>1, <1>2, <1>5, <1>6, SMTT(60) DEF LinksInv, n
<1>14. SeenInv'
  <2>1. {prints'[i].value : i \in 1 .. n} = {prints[i].value : i \in 1 .. n}
    BY <1>6
  <2>2. Len(prints') - 1 = n /\ Len(prints') # 0
    BY <1>1, <1>5
  <2>3. seen' = {prints'[i].value : i \in 1 .. Len(prints') - 1}
    BY <1>8, <2>1, <2>2, Zenon
  <2>4. QED
    BY <2>2, <2>3, Zenon DEF SeenInv
<1>15. DistinctInv'
  <2>1. Distinct(prints)
    BY <1>0 DEF DistinctInv
  <2>2. \A i, j \in 1 .. n : Alike[prints[i].value] = Alike[prints[j].value] => i = j
    BY <2>1 DEF Distinct, n
  <2>3. ASSUME NEW i \in 1 .. n + 1, NEW j \in 1 .. n + 1,
               Alike[prints'[i].value] = Alike[prints'[j].value]
        PROVE  i = j
    <3>1. CASE i \in 1 .. n /\ j \in 1 .. n
      BY <1>6, <2>2, <2>3, <3>1
    <3>2. CASE i \in 1 .. n /\ j = n + 1
      BY <1>6, <1>11, <2>3, <3>2
    <3>3. CASE i = n + 1 /\ j \in 1 .. n
      BY <1>6, <1>11, <2>3, <3>3
    <3>4. CASE i = n + 1 /\ j = n + 1
      BY <3>4
    <3>5. QED
      BY <1>1, <3>1, <3>2, <3>3, <3>4
  <2>4. Distinct(prints)'
    BY <1>5, <2>3 DEF Distinct
  <2>5. QED
    BY <1>2, <2>4 DEF DistinctInv, Distinct, Unlike
<1>16. LedInv'
  <2>1. ~relinked => \A i \in 1 .. n - 1 : Led(prints[i + 1].value, prints[i].value, prints[i].link)
    BY <1>0 DEF LedInv, n
  <2>2. ~relinked => \A i \in 1 .. n : Led(prints'[i + 1].value, prints'[i].value, prints'[i].link)
    <3>1. ASSUME ~relinked, NEW i \in 1 .. n
          PROVE  Led(prints'[i + 1].value, prints'[i].value, prints'[i].link)
      <4>1. CASE i = n
        BY <1>1, <1>6, <1>10, <4>1
      <4>2. CASE i # n
        <5>1. i \in 1 .. n - 1 /\ i + 1 \in 1 .. n
          BY <1>1, <4>2
        <5>2. Led(prints[i + 1].value, prints[i].value, prints[i].link)
          BY <2>1, <3>1, <5>1
        <5>3. QED
          BY <1>6, <4>2, <5>1, <5>2
      <4>3. QED
        BY <4>1, <4>2
    <3>2. QED
      BY <3>1
  <2>3. Len(prints') - 1 = n /\ Len(out') = 0
    BY <1>1, <1>2, <1>5
  <2>4. QED
    BY <1>1, <1>9, <2>2, <2>3 DEF LedInv, Led
<1>17. WholeInv'
  BY <1>1, <1>2, <1>5, <1>6 DEF WholeInv
<1>18. QED
  BY <1>12, <1>13, <1>14, <1>15, <1>16, <1>17 DEF PrintInv

\* A call prints its exception and returns.
LEMMA PrintedCall == ASSUME PrintInv, PrintOne PROVE PrintInv'
<1> DEFINE n == Len(prints)
           k == Len(out)
<1>0. PrintTypeOK /\ LinksInv /\ DistinctInv /\ LedInv /\ WholeInv
  BY DEF PrintInv
<1>1. prints # <<>> /\ Last(prints).link # "enter" /\ out' = Append(out, Last(prints))
      /\ prints' = Front(prints) /\ UNCHANGED <<links, chained, seen, failed, relinked>>
  BY DEF PrintOne
<1>2. prints \in Seq(CallSet) /\ out \in Seq(CallSet) /\ k \in Nat
  BY <1>0 DEF PrintTypeOK
<1>3. /\ n \in Nat \ {0} /\ Last(prints) = prints[n] /\ Last(prints) \in CallSet
      /\ prints' \in Seq(CallSet) /\ Len(prints') = n - 1
      /\ \A i \in 1 .. n - 1 : prints'[i] = prints[i]
  BY <1>1, <1>2, FrontIs
<1>4. /\ out' \in Seq(CallSet) /\ Len(out') = k + 1 /\ out'[k + 1] = prints[n]
      /\ \A i \in 1 .. k : out'[i] = out[i]
  BY <1>1, <1>2, <1>3, AppendProperties
<1>5. /\ cause' = cause /\ context' = context /\ suppress' = suppress
      /\ chained' = chained /\ failed' = failed /\ relinked' = relinked /\ seen' = seen
  BY <1>1 DEF links
<1>6. prints[n].link # "enter"
  BY <1>1, <1>3
<1> HIDE DEF n, k
<1>7. PrintTypeOK'
  BY <1>0, <1>3, <1>4, <1>5 DEF PrintTypeOK
<1>8. LinksInv'
  <2>1. \A i \in 1 .. n - 1 : prints[i].link \in Links
    BY <1>0 DEF LinksInv, n
  <2>2. prints[n].link \in IF k = 0 THEN {"enter", "last"} ELSE Links
    BY <1>0, <1>3 DEF LinksInv, n, k
  <2>3. \A i \in 1 .. k : out[i].link \in (IF i = 1 THEN {"last"} ELSE Links)
    BY <1>0 DEF LinksInv, k
  <2>4. \A i \in 1 .. Len(prints') - 1 : prints'[i].link \in Links
    BY <1>3, <2>1
  <2>5. Len(prints') > 0 => prints'[Len(prints')].link \in Links
    BY <1>3, <2>1
  <2>6. \A i \in 1 .. k + 1 : out'[i].link \in (IF i = 1 THEN {"last"} ELSE Links)
    BY <1>2, <1>4, <1>6, <2>2, <2>3 DEF k
  <2>7. Len(out') # 0
    BY <1>2, <1>4 DEF k
  <2>8. QED
    BY <1>4, <2>4, <2>5, <2>6, <2>7 DEF LinksInv
<1>9. SeenInv'
  <2>1. Len(prints') > 0 => prints[n - 1].link \in Links /\ prints'[Len(prints')] = prints[n - 1]
    BY <1>0, <1>3 DEF LinksInv, n
  <2>2. Len(out') # 0
    BY <1>2, <1>4 DEF k
  <2>3. "enter" \notin Links
    BY DEF Links
  <2>4. Len(prints') > 0 => prints'[Len(prints')].link # "enter"
    BY <2>1, <2>3
  <2>5. QED
    BY <2>2, <2>4, Zenon DEF SeenInv
<1>10. DistinctInv'
  <2>1. \A i, j \in 1 .. n : Alike[prints[i].value] = Alike[prints[j].value] => i = j
    BY <1>0 DEF DistinctInv, Distinct, n
  <2>2. \A i, j \in 1 .. k : Alike[out[i].value] = Alike[out[j].value] => i = j
    BY <1>0 DEF DistinctInv, Distinct, k
  <2>3. \A i \in 1 .. n, j \in 1 .. k : Alike[prints[i].value] # Alike[out[j].value]
    BY <1>0 DEF DistinctInv, Unlike, n, k
  <2>4. n \in 1 .. n /\ \A i \in 1 .. n - 1 : i \in 1 .. n /\ i # n
    BY <1>3
  <2>5. \A i, j \in 1 .. n - 1 : Alike[prints'[i].value] = Alike[prints'[j].value] => i = j
    BY <1>3, <2>1, <2>4
  <2>6. ASSUME NEW i \in 1 .. k + 1, NEW j \in 1 .. k + 1,
               Alike[out'[i].value] = Alike[out'[j].value]
        PROVE  i = j
    <3>1. CASE i \in 1 .. k /\ j \in 1 .. k
      BY <1>4, <2>2, <2>6, <3>1
    <3>2. CASE i \in 1 .. k /\ j = k + 1
      BY <1>4, <2>3, <2>4, <2>6, <3>2
    <3>3. CASE i = k + 1 /\ j \in 1 .. k
      BY <1>4, <2>3, <2>4, <2>6, <3>3
    <3>4. CASE i = k + 1 /\ j = k + 1
      BY <3>4
    <3>5. QED
      BY <1>2, <3>1, <3>2, <3>3, <3>4 DEF k
  <2>7. ASSUME NEW i \in 1 .. n - 1, NEW j \in 1 .. k + 1
        PROVE  Alike[prints'[i].value] # Alike[out'[j].value]
    <3>1. CASE j \in 1 .. k
      BY <1>3, <1>4, <2>3, <2>4, <3>1
    <3>2. CASE j = k + 1
      BY <1>3, <1>4, <2>1, <2>4, <3>2
    <3>3. QED
      BY <1>2, <3>1, <3>2 DEF k
  <2>8. QED
    BY <1>3, <1>4, <2>5, <2>6, <2>7 DEF DistinctInv, Distinct, Unlike
<1>11. LedInv'
  <2> SUFFICES ASSUME ~relinked PROVE LedInv'
    BY <1>5 DEF LedInv
  <2>1. \A i \in 1 .. n - 1 : Led(prints[i + 1].value, prints[i].value, prints[i].link)
    BY <1>0 DEF LedInv, n
  <2>2. \A i \in 2 .. k : Led(out[i - 1].value, out[i].value, out[i].link)
    BY <1>0 DEF LedInv, k
  <2>3. k > 0 => Led(out[k].value, prints[n].value, prints[n].link)
    BY <1>0, <1>3 DEF LedInv, n, k
  <2>4. ASSUME NEW i \in 1 .. Len(prints') - 1
        PROVE  Led(prints'[i + 1].value, prints'[i].value, prints'[i].link)
    <3>1. i \in 1 .. n - 1 /\ i + 1 \in 1 .. n - 1
      BY <1>3
    <3>2. QED
      BY <1>3, <2>1, <3>1
  <2>5. ASSUME NEW i \in 2 .. k + 1
        PROVE  Led(out'[i - 1].value, out'[i].value, out'[i].link)
    <3>1. CASE i \in 2 .. k
      <4>1. i \in 1 .. k /\ i - 1 \in 1 .. k
        BY <1>2, <3>1 DEF k
      <4>2. out'[i - 1] = out[i - 1] /\ out'[i] = out[i]
        BY <1>4, <4>1
      <4>3. Led(out[i - 1].value, out[i].value, out[i].link)
        BY <2>2, <3>1
      <4>4. QED
        BY <4>2, <4>3
    <3>2. CASE i = k + 1
      <4>1. k > 0 /\ i - 1 = k /\ k \in 1 .. k
        BY <1>2, <3>2 DEF k
      <4>2. QED
        BY <1>4, <2>3, <3>2, <4>1
    <3>3. QED
      BY <1>2, <3>1, <3>2 DEF k
  <2>6. ASSUME Len(prints') > 0
        PROVE  Led(out'[k + 1].value, prints'[n - 1].value, prints'[n - 1].link)
    <3>1. n - 1 \in 1 .. n - 1 /\ (n - 1) + 1 = n
      BY <1>3, <2>6
    <3>2. Led(prints[n].value, prints[n - 1].value, prints[n - 1].link)
      BY <2>1, <3>1
    <3>3. QED
      BY <1>3, <1>4, <3>1, <3>2
  <2>7. QED
    BY <1>3, <1>4, <1>5, <2>4, <2>5, <2>6 DEF LedInv, Led
<1>12. WholeInv'
  <2> SUFFICES ASSUME ~relinked, ~failed, chained PROVE WholeInv'
    BY <1>5 DEF WholeInv
  <2>1. ASSUME NEW e, Known(e) PROVE Known(e)'
    <3>1. ASSUME NEW i \in 1 .. n, Alike[prints[i].value] = Alike[e] PROVE Known(e)'
      <4>1. CASE i = n
        <5>1. k + 1 \in 1 .. k + 1
          BY <1>2 DEF k
        <5>2. QED
          BY <1>4, <3>1, <4>1, <5>1 DEF Known
      <4>2. CASE i # n
        <5>1. i \in 1 .. n - 1
          BY <1>3, <4>2
        <5>2. QED
          BY <1>3, <3>1, <5>1 DEF Known
      <4>3. QED
        BY <4>1, <4>2
    <3>2. ASSUME NEW i \in 1 .. k, Alike[out[i].value] = Alike[e] PROVE Known(e)'
      <4>1. i \in 1 .. k + 1
        BY <1>2 DEF k
      <4>2. QED
        BY <1>4, <3>2, <4>1 DEF Known
    <3>3. QED
      BY <2>1, <3>1, <3>2 DEF Known, n, k
  <2>2. Whole(out'[1].value)
    <3>1. CASE k = 0
      <4>1. prints[n].link = "last"
        BY <1>0, <1>3, <1>6, <3>1 DEF LinksInv, n, k
      <4>2. Whole(prints[n].value)
        <5>1. WholeInv /\ n > 0
          BY <1>0, <1>3
        <5>2. QED
          BY <3>1, <4>1, <5>1 DEF WholeInv, n, k
      <4>3. out'[1] = prints[n]
        BY <1>4, <3>1
      <4>4. QED
        BY <4>2, <4>3
    <3>2. CASE k > 0
      <4>1. 1 \in 1 .. k
        BY <1>2, <3>2 DEF k
      <4>2. QED
        BY <1>0, <1>4, <3>2, <4>1 DEF WholeInv, k
    <3>3. QED
      BY <1>2, <3>1, <3>2 DEF k
  <2>3. ASSUME NEW b, Whole(b), b = out'[1].value PROVE Whole(out[1].value)'
    BY <1>5, <2>1, <2>3 DEF Whole, Led
  <2>4. Whole(out[1].value)'
    BY <2>2, <2>3
  <2>5. Len(out') # 0
    BY <1>2, <1>4 DEF k
  <2>6. QED
    BY <2>4, <2>5 DEF WholeInv
<1>13. QED
  BY <1>7, <1>8, <1>9, <1>10, <1>11, <1>12 DEF PrintInv

LEMMA PrintNextInv == PrintInv /\ [PrintNext]_printVars => PrintInv'
<1> SUFFICES ASSUME PrintInv, [PrintNext]_printVars PROVE PrintInv'
  OBVIOUS
<1>0. PrintTypeOK /\ LinksInv /\ SeenInv /\ DistinctInv /\ LedInv /\ WholeInv
  BY DEF PrintInv
<1>1. ASSUME NEW e \in Raised, Display(e) PROVE PrintInv'
  <2>1. /\ prints = <<>> /\ out = <<>> /\ seen' = seen /\ out' = out /\ prints' = <<Nested(e)>>
        /\ cause' \in [Raised -> Raised \cup {NoException}]
        /\ context' \in [Raised -> Raised \cup {NoException}]
        /\ suppress' \in [Raised -> BOOLEAN]
    BY <1>1 DEF Display
  <2>2. Len(prints) = 0 /\ Len(out) = 0 /\ seen = {}
    BY <1>0, <2>1 DEF SeenInv
  <2>3. Nested(e) \in CallSet /\ Nested(e).value = e /\ Nested(e).link = "enter"
    BY DEF Nested, CallSet
  <2>4. prints' \in Seq(CallSet) /\ Len(prints') = 1 /\ prints'[1] = Nested(e)
    BY <2>1, <2>3
  <2>5. PrintTypeOK'
    BY <1>0, <2>1, <2>4 DEF PrintTypeOK
  <2>6. LinksInv' /\ SeenInv' /\ DistinctInv' /\ LedInv' /\ WholeInv'
    BY <2>1, <2>2, <2>3, <2>4
       DEF LinksInv, SeenInv, DistinctInv, Distinct, Unlike, LedInv, WholeInv
  <2>7. QED
    BY <2>5, <2>6 DEF PrintInv
<1>2. CASE Follow
  <2> DEFINE b == prints[Len(prints)].value
             next == LinkOf(b)
  <2>1. prints # <<>> /\ Last(prints).link = "enter" /\ out' = out
        /\ UNCHANGED <<links, chained, relinked>>
    BY <1>2 DEF Follow
  <2>2. Last(prints) = prints[Len(prints)] /\ Last(prints) \in CallSet
    BY <1>0, <2>1, FrontIs DEF PrintTypeOK
  <2>3. prints[Len(prints)].link = "enter" /\ b \in Raised /\ Printed = b
    BY <2>1, <2>2 DEF CallSet, Printed
  <2>4. seen \cup {b} \in SUBSET Raised /\ seen \in SUBSET Raised
    BY <1>0, <2>3 DEF PrintTypeOK
  <2>5. /\ next.to \in Raised \cup {NoException}
        /\ next.to # NoException => next.link \in Links /\ Led(next.to, b, next.link)
        /\ \A e \in Raised, link \in Links : Led(e, b, link) => next.to = e
    BY <1>0, <2>3, LinkOfIs
  <2> HIDE DEF b, next
  <2>6. ASSUME prints' = Linked("last"), seen' \in SUBSET Raised,
               chained /\ ~failed' /\ ~relinked => Whole(b)
        PROVE  PrintInv'
    BY <2>1, <2>3, <2>6, LastCall DEF b
  <2>7. CASE ~chained /\ prints' = Linked("last") /\ UNCHANGED <<seen, failed>>
    BY <2>4, <2>6, <2>7
  <2>8. CASE prints' = Linked("last") /\ failed' = TRUE /\ seen' \in {seen, seen \cup {b}}
    BY <2>4, <2>6, <2>8
  <2>9. CASE /\ chained /\ seen' = seen \cup {b} /\ prints' = Linked("last")
             /\ next.to = NoException \/ Has(seen', next.to)
    <3>1. ASSUME NEW e \in Raised, NEW link \in Links, Led(e, b, link) PROVE Known(e)
      <4>1. next.to = e /\ e # NoException
        BY <2>5, <3>1, PrintingAssumption
      <4>2. PICK s \in seen \cup {b} : Alike[s] = Alike[e]
        BY <2>9, <4>1 DEF Has
      <4>3. Len(prints) \in Nat \ {0}
        BY <1>0, <2>1, EmptySeq DEF PrintTypeOK
      <4>4. CASE s = b
        BY <4>2, <4>3, <4>4 DEF Known, b
      <4>5. CASE s \in seen
        <5>1. PICK i \in 1 .. Len(prints) - 1 : s = prints[i].value
          BY <1>0, <2>3, <4>3, <4>5 DEF SeenInv
        <5>2. i \in 1 .. Len(prints)
          BY <4>3, <5>1
        <5>3. QED
          BY <4>2, <5>1, <5>2 DEF Known
      <4>6. QED
        BY <4>2, <4>4, <4>5
    <3>2. Whole(b)
      BY <3>1 DEF Whole
    <3>3. QED
      BY <2>4, <2>6, <2>9, <3>2
  <2>10. CASE /\ chained /\ seen' = seen \cup {b} /\ next.to # NoException
              /\ ~Has(seen', next.to)
              /\ prints' = Append(Linked(next.link), Nested(next.to))
    <3>1. next.to \in Raised /\ next.link \in Links /\ Led(next.to, b, next.link)
      BY <2>5, <2>10
    <3>2. QED
      BY <2>1, <2>3, <2>10, <3>1, NestedCall DEF b
  <2>11. QED
    BY <1>2, <2>3, <2>7, <2>8, <2>9, <2>10 DEF Follow, next
<1>3. CASE PrintOne
  BY <1>3, PrintedCall
<1>4. ASSUME NEW e \in Raised, NEW to \in Raised \cup {NoException}, Relink(e, to)
      PROVE  PrintInv'
  <2>1. /\ cause' = [cause EXCEPT ![e] = to] /\ relinked' = TRUE
        /\ UNCHANGED <<context, suppress, chained, seen, prints, out, failed>>
    BY <1>4 DEF Relink
  <2>2. cause' \in [Raised -> Raised \cup {NoException}]
    BY <1>0, <2>1 DEF PrintTypeOK
  <2>3. PrintTypeOK'
    BY <1>0, <2>1, <2>2 DEF PrintTypeOK
  <2>4. LinksInv' /\ SeenInv' /\ DistinctInv'
    BY <1>0, <2>1 DEF LinksInv, SeenInv, DistinctInv, Distinct, Unlike
  <2>5. LedInv' /\ WholeInv'
    BY <2>1 DEF LedInv, WholeInv
  <2>6. QED
    BY <2>3, <2>4, <2>5 DEF PrintInv
<1>5. CASE UNCHANGED printVars
  <2>1. /\ cause' = cause /\ context' = context /\ suppress' = suppress /\ chained' = chained
        /\ seen' = seen /\ prints' = prints /\ out' = out /\ failed' = failed
        /\ relinked' = relinked
    BY <1>5 DEF printVars, links
  <2>2. PrintTypeOK' /\ LinksInv' /\ SeenInv'
    BY <1>0, <2>1 DEF PrintTypeOK, LinksInv, SeenInv
  <2>3. DistinctInv' /\ LedInv'
    BY <1>0, <2>1, SMTT(60) DEF DistinctInv, Distinct, Unlike, LedInv, Led
  <2>4. WholeInv'
    BY <1>0, <2>1 DEF WholeInv, Whole, Known, Led
  <2>5. QED
    BY <2>2, <2>3, <2>4 DEF PrintInv
<1>6. QED
  BY <1>1, <1>2, <1>3, <1>4, <1>5 DEF PrintNext

LEMMA PrintInvShows == PrintInv => PrintedOnce /\ ChainPrinted
<1> SUFFICES ASSUME PrintInv PROVE PrintedOnce /\ ChainPrinted
  OBVIOUS
<1> DEFINE n == Len(prints)
           k == Len(out)
           all == out \o prints
<1>0. PrintTypeOK /\ LinksInv /\ DistinctInv /\ LedInv /\ WholeInv
  BY DEF PrintInv
<1>1. prints \in Seq(CallSet) /\ out \in Seq(CallSet) /\ n \in Nat /\ k \in Nat
  BY <1>0 DEF PrintTypeOK
<1>2. PrintedOnce
  <2>1. DOMAIN all = 1 .. k + n
        /\ \A i \in 1 .. k + n : all[i] = IF i <= k THEN out[i] ELSE prints[i - k]
    BY <1>1
  <2>2. /\ \A i, j \in 1 .. n : Alike[prints[i].value] = Alike[prints[j].value] => i = j
        /\ \A i, j \in 1 .. k : Alike[out[i].value] = Alike[out[j].value] => i = j
        /\ \A i \in 1 .. n, j \in 1 .. k : Alike[prints[i].value] # Alike[out[j].value]
    BY <1>0 DEF DistinctInv, Distinct, Unlike
  <2> HIDE DEF all, n, k
  <2>3. ASSUME NEW i \in 1 .. k + n, NEW j \in 1 .. k + n, all[i].value = all[j].value
        PROVE  i = j
    <3>1. CASE i <= k /\ j <= k
      <4>1. i \in 1 .. k /\ j \in 1 .. k
        BY <1>1, <3>1 DEF n, k
      <4>2. QED
        BY <2>1, <2>2, <2>3, <3>1, <4>1
    <3>2. CASE i <= k /\ ~(j <= k)
      <4>1. i \in 1 .. k /\ j - k \in 1 .. n
        BY <1>1, <3>2 DEF n, k
      <4>2. QED
        BY <2>1, <2>2, <2>3, <3>2, <4>1
    <3>3. CASE ~(i <= k) /\ j <= k
      <4>1. i - k \in 1 .. n /\ j \in 1 .. k
        BY <1>1, <3>3 DEF n, k
      <4>2. QED
        BY <2>1, <2>2, <2>3, <3>3, <4>1
    <3>4. CASE ~(i <= k) /\ ~(j <= k)
      <4>1. i - k \in 1 .. n /\ j - k \in 1 .. n
        BY <1>1, <3>4 DEF n, k
      <4>2. i - k = j - k
        BY <2>1, <2>2, <2>3, <3>4, <4>1
      <4>3. QED
        BY <1>1, <4>2 DEF n, k
    <3>5. QED
      BY <3>1, <3>2, <3>3, <3>4
  <2>4. QED
    BY <2>1, <2>3 DEF PrintedOnce, all
<1>3. ChainPrinted
  <2> SUFFICES ASSUME prints = <<>>, out # <<>>, ~relinked
               PROVE  /\ out[1].link = "last"
                      /\ \A i \in 2 .. Len(out) : Led(out[i - 1].value, out[i].value, out[i].link)
                      /\ \/ failed \/ ~chained
                         \/ \A e \in Raised, link \in Links :
                              Led(e, out[1].value, link) => \E x \in Written : Alike[x] = Alike[e]
    BY DEF ChainPrinted, Links
  <2>1. n = 0 /\ k \in Nat \ {0} /\ DOMAIN out = 1 .. k
    BY <1>1, EmptySeq
  <2>2. out[1].link = "last"
    BY <1>0, <2>1 DEF LinksInv
  <2>3. \A i \in 2 .. Len(out) : Led(out[i - 1].value, out[i].value, out[i].link)
    BY <1>0 DEF LedInv
  <2>4. ASSUME ~failed, chained PROVE Whole(out[1].value)
    BY <1>0, <2>1, <2>4 DEF WholeInv
  <2>5. ASSUME NEW e, Known(e) PROVE \E x \in Written : Alike[x] = Alike[e]
    <3>1. PICK i \in 1 .. k : Alike[out[i].value] = Alike[e]
      BY <2>1, <2>5 DEF Known
    <3>2. out[i].value \in Written
      BY <2>1, <3>1 DEF Written
    <3>3. QED
      BY <3>1, <3>2
  <2>6. QED
    BY <2>2, <2>3, <2>4, <2>5 DEF Whole
<1>4. QED
  BY <1>2, <1>3

-----------------------------------------------------------------------------
(* print_error_text().                                                     *)

\* The text of a line: characters of three kinds that know their places.
CharKinds == {"letter", "blank", "newline"}

IsText(text, n) ==
  \E kinds \in [1 .. n -> CharKinds] : text = [i \in 1 .. n |-> [kind |-> kinds[i], place |-> i]]

\* The offset is that of a character of the text.
LineInv ==
  report.at = "text" =>
    /\ report.version = "2.7"
    /\ \E n \in Nat : IsText(line.text, n) /\ line.offset \in 1 .. n

LEMMA LineInitInv == ReportInit => LineInv
<1> SUFFICES ASSUME ReportInit PROVE LineInv
  OBVIOUS
<1>1. PICK v \in Versions :
        report = [at |-> "idle", version |-> v, todo |-> <<>>, attr |-> 1,
                  inspect |-> FALSE, leak |-> FALSE]
  BY DEF ReportInit
<1>2. report.at = "idle"
  BY <1>1
<1>3. QED
  BY <1>2 DEF LineInv

\* No other step than PickLine comes to print_error_text(), and none leaves it.
LEMMA TextPicked ==
  ASSUME ReportTypeOK, ReportNext, report'.at = "text"
  PROVE  PickLine
<1>1. ASSUME NEW to \in ReportPlaces, Proceeds(to)
      PROVE  report'.at = to
  BY <1>1, ProceedsIs
<1>2. ASSUME NEW r, NEW s, NEW to, NEW x,
             r \in [at : ReportPlaces, version : Versions, todo : Todos,
                    attr : 1 .. 6, inspect : BOOLEAN, leak : BOOLEAN]
      PROVE  /\ s = [r EXCEPT !.at = to, !.inspect = x] => s.at = to
             /\ s = [r EXCEPT !.at = to, !.todo = x] => s.at = to
             /\ s = [r EXCEPT !.at = to, !.attr = x] => s.at = to
             /\ s = [r EXCEPT !.at = to, !.leak = x] => s.at = to
             /\ s = [r EXCEPT !.todo = x, !.at = to] => s.at = to
             /\ s = [r EXCEPT !.attr = x] => s.at = r.at
  BY <1>2
<1>3. \A to, x :
        /\ report' = [report EXCEPT !.at = to, !.inspect = x] => report'.at = to
        /\ report' = [report EXCEPT !.at = to, !.todo = x] => report'.at = to
        /\ report' = [report EXCEPT !.at = to, !.attr = x] => report'.at = to
        /\ report' = [report EXCEPT !.at = to, !.leak = x] => report'.at = to
        /\ report' = [report EXCEPT !.todo = x, !.at = to] => report'.at = to
        /\ report' = [report EXCEPT !.attr = x] => report'.at = report.at
  BY <1>2, Zenon DEF ReportTypeOK
<1>4. ASSUME NEW i \in BOOLEAN, HandleSystemExit(i) PROVE FALSE
  <2>1. CASE i
    <3>1. report' = [report EXCEPT !.at = "fetch", !.inspect = TRUE]
      BY <1>4, <2>1 DEF HandleSystemExit
    <3>2. report'.at = "fetch"
      BY <1>3, <3>1, Zenon
    <3>3. QED
      BY <3>2
  <2>2. CASE ~i
    BY <1>1, <1>4, <2>2 DEF HandleSystemExit, ReportPlaces
  <2>3. QED
    BY <2>1, <2>2
<1>5. ASSUME Fetch \/ EndPrint \/ TakeMessage \/ WriteValue PROVE FALSE
  BY <1>1, <1>5 DEF Fetch, EndPrint, TakeMessage, WriteValue, ReportPlaces
<1>6. ASSUME CallHook PROVE FALSE
  <2>1. \/ \E x : report' = [report EXCEPT !.at = "display", !.todo = x]
        \/ Proceeds("end") \/ Proceeds("exit")
    BY <1>6 DEF CallHook
  <2>2. "end" \in ReportPlaces /\ "exit" \in ReportPlaces
    BY DEF ReportPlaces
  <2>3. report'.at = "display" \/ report'.at = "end" \/ report'.at = "exit"
    BY <1>1, <1>3, <2>1, <2>2, Zenon
  <2>4. QED
    BY <2>3
<1>7. ASSUME DisplayDirectly \/ BeginDisplay PROVE FALSE
  <2>1. \/ \E x : report' = [report EXCEPT !.at = "display", !.todo = x]
        \/ \E to \in {"displayed", "name", "syntax"} :
             report' = [report EXCEPT !.at = to, !.attr = 1]
    BY <1>7 DEF DisplayDirectly, BeginDisplay
  <2>2. report'.at = "display" \/ report'.at \in {"displayed", "name", "syntax"}
    BY <1>3, <2>1, Zenon
  <2>3. QED
    BY <2>2
<1>8. ASSUME ReadAttribute PROVE FALSE
  <2>1. \/ report.at = "syntax" /\ report' = [report EXCEPT !.attr = report.attr + 1]
        \/ \E x : report' = [report EXCEPT !.at = "name", !.leak = x]
        \/ Proceeds("name")
    BY <1>8 DEF ReadAttribute, GiveUp26, GiveUp
  <2>2. "name" \in ReportPlaces
    BY DEF ReportPlaces
  <2>3. report'.at = "syntax" \/ report'.at = "name"
    BY <1>1, <1>3, <2>1, <2>2, Zenon
  <2>4. QED
    BY <2>3
<1>9. ASSUME EndDisplay PROVE FALSE
  <2>1. \E x : \E to \in {"display", "end"} : report' = [report EXCEPT !.todo = x, !.at = to]
    <3>1. report' = [report EXCEPT !.todo = Tail(report.todo),
                              !.at = IF Len(report.todo) > 1 THEN "display" ELSE "end"]
      BY <1>9 DEF EndDisplay
    <3>2. (IF Len(report.todo) > 1 THEN "display" ELSE "end") \in {"display", "end"}
      OBVIOUS
    <3>3. QED
      BY <3>1, <3>2
  <2>2. report'.at \in {"display", "end"}
    BY <1>3, <2>1, Zenon
  <2>3. QED
    BY <2>2
<1>10. QED
  BY <1>4, <1>5, <1>6, <1>7, <1>8, <1>9 DEF ReportNext

LEMMA LineNextInv == ReportInv /\ LineInv /\ [ReportNext]_reportVars => LineInv'
<1> SUFFICES ASSUME ReportInv, LineInv, [ReportNext]_reportVars, report'.at = "text"
             PROVE  (/\ report.version = "2.7"
                     /\ \E n \in Nat : IsText(line.text, n) /\ line.offset \in 1 .. n)'
  BY DEF LineInv
<1>1. CASE UNCHANGED reportVars
  BY <1>1 DEF LineInv, reportVars
<1>2. CASE ReportNext
  <2>1. PickLine
    BY <1>2, TextPicked DEF ReportInv
  <2>2. PICK n \in 1 .. MaxText :
          \E kinds \in [1 .. n -> {"letter", "blank", "newline"}], offset \in 1 .. n :
            line' = [text |-> [i \in 1 .. n |-> [kind |-> kinds[i], place |-> i]],
                     offset |-> offset]
    BY <2>1 DEF PickLine
  <2>3. PICK kinds \in [1 .. n -> {"letter", "blank", "newline"}], offset \in 1 .. n :
          line' = [text |-> [i \in 1 .. n |-> [kind |-> kinds[i], place |-> i]],
                   offset |-> offset]
    BY <2>2
  <2>4. n \in Nat /\ line'.offset \in 1 .. n
        /\ line'.text = [i \in 1 .. n |-> [kind |-> kinds[i], place |-> i]]
    BY <2>3, ReportingAssumption
  <2>5. IsText(line'.text, n)
    BY <2>4 DEF IsText, CharKinds
  <2>6. report.version = "2.7" /\ Proceeds("text")
    BY <2>1 DEF PickLine
  <2>7. report'.version = "2.7"
    BY <2>6, ProceedsIs DEF ReportInv, ReportPlaces
  <2>8. QED
    BY <2>4, <2>5, <2>7
<1>3. QED
  BY <1>1, <1>2

\* A set of indices up to n that is not empty has a greatest element.
LEMMA Greatest ==
  ASSUME NEW n \in Nat, NEW T \in SUBSET (1 .. n), T # {}
  PROVE  \E m \in T : \A j \in T : j <= m
<1> DEFINE R == {n - j : j \in T}
<1>1. R \in SUBSET Nat /\ R # {}
  <2>1. \A j \in T : j \in 1 .. n /\ n - j \in Nat
    OBVIOUS
  <2>2. \E j \in T : TRUE
    OBVIOUS
  <2>3. QED
    BY <2>1, <2>2
<1>2. PICK r \in R : \A s \in R : r <= s
  <2> HIDE DEF R
  <2> QED
    BY <1>1, Least
<1>3. PICK m \in T : r = n - m
  BY <1>2
<1>4. ASSUME NEW j \in T
      PROVE  j <= m
  <2>1. n - m <= n - j
    BY <1>2, <1>3
  <2>2. j \in Nat /\ m \in Nat
    OBVIOUS
  <2>3. QED
    BY <2>1, <2>2
<1>5. QED
  BY <1>4

\* A text is a sequence; what its characters are.
LEMMA TextIs ==
  ASSUME NEW text, NEW n \in Nat, IsText(text, n)
  PROVE  /\ DOMAIN text = 1 .. n /\ Len(text) = n
         /\ \A i \in 1 .. n : text[i].place = i /\ text[i].kind \in CharKinds
<1>1. PICK kinds \in [1 .. n -> CharKinds] :
        text = [i \in 1 .. n |-> [kind |-> kinds[i], place |-> i]]
  BY DEF IsText
<1>2. text \in Seq([kind : CharKinds, place : 1 .. n])
  BY <1>1
<1>3. DOMAIN text = 1 .. n
  BY <1>1
<1>4. Len(text) = n
  BY <1>2, <1>3
<1>5. \A i \in 1 .. n : text[i] = [kind |-> kinds[i], place |-> i]
  BY <1>1
<1>6. QED
  BY <1>3, <1>4, <1>5

\* The loop of print_error_text() does not skip the character it is about.
LEMMA LineOfIs ==
  ASSUME NEW text, NEW n \in Nat, IsText(text, n), NEW offset \in 1 .. n,
         text[offset].kind = "letter"
  PROVE  \E nl \in 0 .. offset - 1 :
           LineOf(text, offset) = [text |-> SubSeq(text, nl + 1, n), offset |-> offset - nl]
<1> DEFINE skipped == {i \in DOMAIN text : i <= offset /\ Kind(text, i) = "newline"}
           nl == IF skipped = {} THEN 0 ELSE CHOOSE i \in skipped : \A j \in skipped : j <= i
<1>1. LineOf(text, offset) = [text |-> SubSeq(text, nl + 1, n), offset |-> offset - nl]
  <2>1. Len(text) = n
    BY TextIs
  <2>2. LineOf(text, offset) =
          [text |-> SubSeq(text, nl + 1, Len(text)), offset |-> offset - nl]
    BY Zenon DEF LineOf
  <2>3. QED
    BY <2>1, <2>2, Zenon
<1>2. \A i \in skipped : i \in 1 .. n /\ i \in 1 .. offset - 1
  <2>1. \A i \in skipped : i \in 1 .. n /\ i <= offset /\ text[i].kind = "newline"
    BY TextIs DEF Kind
  <2>2. \A i \in skipped : i # offset
    BY <2>1
  <2> HIDE DEF skipped
  <2>3. QED
    BY <2>1, <2>2
<1>3. nl \in 0 .. offset - 1
  <2>1. CASE skipped = {}
    BY <2>1
  <2>2. CASE skipped # {}
    <3> HIDE DEF skipped
    <3>1. skipped \in SUBSET (1 .. n)
      BY <1>2
    <3>2. \E i \in skipped : \A j \in skipped : j <= i
      BY <2>2, <3>1, Greatest
    <3>3. (CHOOSE i \in skipped : \A j \in skipped : j <= i) \in skipped
      BY <3>2
    <3>4. nl \in skipped
      BY <2>2, <3>3
    <3>5. QED
      BY <1>2, <3>4
  <2>3. QED
    BY <2>1, <2>2
<1>4. QED
  <2> HIDE DEF nl
  <2> QED
    BY <1>1, <1>3

\* The blanks a line starts with, when one of its characters is not a blank.
LEMMA BlanksIs ==
  ASSUME NEW text, NEW n \in Nat, DOMAIN text = 1 .. n, NEW m \in 1 .. n,
         text[m].kind # "blank"
  PROVE  \E b \in 0 .. m - 1 :
           Cardinality({i \in DOMAIN text : \A j \in 1 .. i : Kind(text, j) = "blank"}) = b
<1> DEFINE T == {i \in 1 .. n : text[i].kind # "blank"}
           B == {i \in DOMAIN text : \A j \in 1 .. i : Kind(text, j) = "blank"}
<1>1. PICK t \in T : \A j \in T : t <= j
  <2>1. T \in SUBSET Nat /\ m \in T
    OBVIOUS
  <2> HIDE DEF T
  <2>2. QED
    BY <2>1, Least
<1>2. t \in 1 .. n /\ text[t].kind # "blank" /\ t <= m
  BY <1>1
<1>3. \A j \in 1 .. t - 1 : text[j].kind = "blank"
  <2>1. ASSUME NEW j \in 1 .. t - 1
        PROVE  text[j].kind = "blank"
    <3>1. j \in 1 .. n /\ ~ (t <= j)
      BY <1>2
    <3>2. j \notin T
      BY <1>1, <3>1
    <3>3. QED
      BY <3>1, <3>2
  <2>2. QED
    BY <2>1
<1>4. B = 1 .. t - 1
  <2>1. ASSUME NEW i \in 1 .. t - 1
        PROVE  i \in B
    <3>1. i \in 1 .. n /\ \A j \in 1 .. i : j \in 1 .. t - 1
      BY <1>2
    <3>2. QED
      BY <1>3, <3>1 DEF Kind
  <2>2. ASSUME NEW i \in B
        PROVE  i \in 1 .. t - 1
    <3>1. i \in 1 .. n /\ \A j \in 1 .. i : text[j].kind = "blank"
      BY DEF Kind
    <3>2. t \notin 1 .. i
      BY <1>2, <3>1
    <3>3. QED
      BY <1>2, <3>1, <3>2
  <2> HIDE DEF B
  <2>3. QED
    BY <2>1, <2>2
<1>5. Cardinality(1 .. t - 1) = t - 1
  <2>1. 1 \in Int /\ t - 1 \in Int
    BY <1>2
  <2>2. Cardinality(1 .. t - 1) = IF 1 > t - 1 THEN 0 ELSE (t - 1) - 1 + 1
    BY <2>1, FS_Interval
  <2>3. QED
    BY <1>2, <2>2
<1>6. t - 1 \in 0 .. m - 1
  BY <1>2
<1>7. Cardinality(B) = t - 1
  BY <1>4, <1>5
<1>8. QED
  BY <1>6, <1>7

\* What is left of a sequence without its first elements.
LEMMA SubSeqAt ==
  ASSUME NEW s, NEW a \in Nat, NEW n \in Nat, a <= n
  PROVE  /\ Len(SubSeq(s, a + 1, n)) = n - a
         /\ DOMAIN SubSeq(s, a + 1, n) = 1 .. n - a
         /\ \A i \in 1 .. n - a : SubSeq(s, a + 1, n)[i] = s[a + i]
<1> DEFINE S == {s[j] : j \in 1 .. n}
           q == SubSeq(s, a + 1, n)
<1>1. \A i \in a + 1 .. n : s[i] \in S
  <2>1. \A i \in a + 1 .. n : i \in 1 .. n
    OBVIOUS
  <2>2. QED
    BY <2>1, Zenon
<1>2. a + 1 \in Int /\ n \in Int
  OBVIOUS
<1>3. /\ q \in Seq(S)
      /\ Len(q) = IF a + 1 <= n THEN n - (a + 1) + 1 ELSE 0
      /\ \A i \in 1 .. n - (a + 1) + 1 : q[i] = s[(a + 1) + i - 1]
  <2> HIDE DEF S
  <2> QED
    BY <1>1, <1>2, SubSeqProperties
<1> HIDE DEF q
<1>4. Len(q) = n - a /\ DOMAIN q = 1 .. n - a
  BY <1>3
<1>5. ASSUME NEW i \in 1 .. n - a
      PROVE  q[i] = s[a + i]
  <2>1. i \in 1 .. n - (a + 1) + 1 /\ (a + 1) + i - 1 = a + i
    OBVIOUS
  <2>2. QED
    BY <1>3, <2>1
<1>6. QED
  BY <1>4, <1>5 DEF q

\* The caret under the character that is meant, when the offset is not after
\* the newline that ends the text.
LEMMA CaretIs ==
  ASSUME NEW text, NEW n \in Nat, IsText(text, n), NEW meant \in 1 .. n,
         text[meant].kind = "letter",
         NEW offset \in Nat, NEW version \in Versions, version = "2.7",
         meant = IF offset > 0 /\ AtEnd(text, offset) THEN offset - 1 ELSE offset
  PROVE  LET printed == PrintErrorText(version, text, offset)
         IN  printed.text[printed.caret].place = meant
<1>1. PICK nl \in 0 .. meant - 1 :
        LineOf(text, meant) = [text |-> SubSeq(text, nl + 1, n), offset |-> meant - nl]
  BY LineOfIs
<1> DEFINE l == SubSeq(text, nl + 1, n)
<1>2. /\ DOMAIN l = 1 .. n - nl /\ Len(l) = n - nl
      /\ \A i \in 1 .. n - nl : l[i] = text[nl + i]
  <2>1. nl \in Nat /\ n - nl \in Nat
    BY <1>1
  <2>2. Len(l) = n - nl /\ DOMAIN l = 1 .. n - nl
    BY <2>1, SubSeqAt
  <2>3. \A i \in 1 .. n - nl : l[i] = text[nl + i]
    BY <2>1, SubSeqAt
  <2>4. QED
    BY <2>2, <2>3
<1> DEFINE m == meant - nl
<1>3. m \in 1 .. n - nl /\ nl + m = meant /\ n - nl \in Nat
  BY <1>1
<1>4. l[m].kind = "letter" /\ l[m].place = meant
  <2>1. l[m] = text[meant]
    <3> HIDE DEF l, m
    <3> QED
      BY <1>2, <1>3
  <2>2. text[meant].place = meant
    BY TextIs
  <2>3. QED
    BY <2>1, <2>2
<1>5. PICK b \in 0 .. m - 1 :
        Cardinality({i \in DOMAIN l : \A j \in 1 .. i : Kind(l, j) = "blank"}) = b
  <2>1. l[m].kind # "blank"
    BY <1>4
  <2> HIDE DEF l, m
  <2>2. QED
    BY <1>2, <1>3, <2>1, BlanksIs
<1> DEFINE p == SubSeq(l, b + 1, Len(l))
<1>6. p[m - b] = l[m]
  <2> HIDE DEF l, m
  <2>1. b \in Nat /\ Len(l) \in Nat /\ m - b \in 1 .. Len(l) - b /\ b + (m - b) = m
    BY <1>2, <1>3, <1>5
  <2>2. \A i \in 1 .. Len(l) - b : p[i] = l[b + i]
    BY <2>1, SubSeqAt, SMTT(60)
  <2> HIDE DEF p
  <2>3. QED
    BY <2>1, <2>2
<1>7. PrintErrorText(version, text, offset) = [text |-> p, caret |-> m - b]
  <2> DEFINE ends == offset > 0 /\ (IF version = "2.6" THEN AtEnd26(text, offset)
                                    ELSE AtEnd(text, offset))
             o == IF ends THEN offset - 1 ELSE offset
             ll == LineOf(text, o)
             blanks == Cardinality({i \in DOMAIN ll.text :
                                      \A j \in 1 .. i : Kind(ll.text, j) = "blank"})
             col == ll.offset - blanks
  <2>1. PrintErrorText(version, text, offset) =
          [text |-> SubSeq(ll.text, blanks + 1, Len(ll.text)),
           caret |-> IF col = -1 THEN 0 ELSE IF col < 1 THEN 1 ELSE col]
    <3>1. ~ (offset < 0)
      OBVIOUS
    <3>2. QED
      BY <3>1, Zenon DEF PrintErrorText
  <2>2. o = meant
    OBVIOUS
  <2>3. ll = LineOf(text, meant)
    <3> HIDE DEF o
    <3> QED
      BY <2>2
  <2>4. ll.text = l /\ ll.offset = m
    <3> HIDE DEF ll
    <3> QED
      BY <1>1, <2>3
  <2>5. blanks = b
    <3> HIDE DEF ll, l
    <3> QED
      BY <1>5, <2>4
  <2>6. col = m - b /\ m - b >= 1
    <3> HIDE DEF ll, blanks, m, l
    <3> QED
      BY <1>3, <1>5, <2>4, <2>5
  <2>7. (IF col = -1 THEN 0 ELSE IF col < 1 THEN 1 ELSE col) = m - b
    <3> HIDE DEF col, m
    <3> QED
      BY <1>3, <1>5, <2>6
  <2>8. SubSeq(ll.text, blanks + 1, Len(ll.text)) = p
    <3> HIDE DEF ll, blanks, l
    <3> QED
      BY <2>4, <2>5
  <2> HIDE DEF ll, blanks, col, p, m
  <2>9. QED
    BY <2>1, <2>7, <2>8
<1>8. QED
  <2> HIDE DEF p, m, l
  <2> QED
    BY <1>4, <1>6, <1>7

LEMMA LineInvShows == LineInv => CaretUnderError
<1> DEFINE last == line.offset = Len(line.text) /\ Kind(line.text, line.offset) = "newline"
           meant == IF last THEN line.offset - 1 ELSE line.offset
<1> SUFFICES ASSUME LineInv, report.at = "text", meant > 0, Kind(line.text, meant) = "letter"
             PROVE  LET printed == PrintErrorText(report.version, line.text, line.offset)
                    IN  printed.text[printed.caret].place = meant
  BY Zenon DEF CaretUnderError
<1>1. PICK n \in Nat : IsText(line.text, n) /\ line.offset \in 1 .. n
  BY DEF LineInv
<1>2. report.version = "2.7" /\ report.version \in Versions
  BY DEF LineInv, Versions
<1>3. meant \in 1 .. n /\ line.offset \in Nat /\ line.text[meant].kind = "letter"
  BY <1>1 DEF Kind
<1>4. meant = IF line.offset > 0 /\ AtEnd(line.text, line.offset)
              THEN line.offset - 1 ELSE line.offset
  BY <1>1 DEF AtEnd
<1> HIDE DEF meant
<1>5. QED
  BY <1>1, <1>2, <1>3, <1>4, CaretIs

-----------------------------------------------------------------------------
(* Objects: references, the trashcan and the list of all objects.          *)

Frames == [op : 0 .. MaxObjects, at : {"begin", "body", "chain", "called"},
           todo : SUBSET Objects]

LifeShape ==
  /\ refcnt \in [Objects -> Nat]
  /\ memory \in [Objects -> {"unused", "alive", "dying", "freed"}]
  /\ contents \in [Objects -> SUBSET Objects]
  /\ held \in SUBSET Objects
  /\ later \in Seq(Objects)
  /\ calls \in Seq(Frames)
  /\ nesting \in Nat

\* A call of tp_dealloc().
Deallocs(frame) == frame.at \in {"begin", "body"}

\* All calls but the innermost one count as a level, and the trash is emptied
\* at the bottom of the stack only.
StackOf(stack, nest, lat) ==
  /\ \A i \in 1 .. Len(stack) :
       /\ Deallocs(stack[i]) => stack[i].op \in Objects
       /\ stack[i].at # "body" => stack[i].todo = {}
       /\ stack[i].at \in {"chain", "called"} => i = 1
       /\ i < Len(stack) => stack[i].at \in {"body", "called"}
  /\ Len(stack) = 0 => nest = 0 /\ Len(lat) = 0
  /\ Len(stack) > 0 =>
       nest = IF stack[Len(stack)].at \in {"begin", "chain"} THEN Len(stack) - 1
              ELSE Len(stack)
  /\ nest <= UnwindLevel

StackInv == StackOf(calls, nesting, later)

\* What dies is in a call of tp_dealloc() or in the trash, once.
Calling(o, stack) == \E i \in 1 .. Len(stack) : Deallocs(stack[i]) /\ stack[i].op = o
Waiting(o, lat) == \E i \in 1 .. Len(lat) : lat[i] = o
DyingIn(mem, stack, lat) ==
  /\ \A o \in Objects : mem[o] = "dying" <=> Calling(o, stack) \/ Waiting(o, lat)
  /\ \A i, j \in 1 .. Len(stack) :
       Deallocs(stack[i]) /\ Deallocs(stack[j]) /\ stack[i].op = stack[j].op => i = j
  /\ \A i, j \in 1 .. Len(lat) : lat[i] = lat[j] => i = j
  /\ \A o \in Objects : ~(Calling(o, stack) /\ Waiting(o, lat))

DyingInv == DyingIn(memory, calls, later)

\* The places that have a reference to an object: objects alive, objects in
\* the trash, calls that have still to release it, the program.
InAlive(o, mem, cont) == {p \in Objects : o \in cont[p] /\ mem[p] = "alive"}
InTrash(o, lat, cont) == {p \in Objects : o \in cont[p] /\ p \in ToSet(lat)}
InCalls(o, stack, cont) ==
  {i \in DOMAIN stack : \/ o \in stack[i].todo
                        \/ stack[i].at = "begin" /\ o \in cont[stack[i].op]}
Refs(o, mem, cont, lat, stack, had) ==
  Cardinality(InAlive(o, mem, cont)) + Cardinality(InTrash(o, lat, cont))
  + Cardinality(InCalls(o, stack, cont)) + (IF o \in had THEN 1 ELSE 0)

RefInv ==
  \A o \in Objects :
    /\ refcnt[o] = Refs(o, memory, contents, later, calls, held)
    /\ refcnt[o] > 0 <=> memory[o] = "alive"

\* What is on a list, and one that is linked in both directions and comes back
\* to its head.
On(next) == {x \in Places : next[x] # Null}
RingOn(next, prev, places) ==
  /\ Refchain \in places
  /\ \A x \in Places : prev[x] # Null <=> x \in places
  /\ \A x \in places : next[x] \in places /\ prev[x] \in places
  /\ \A x \in places : prev[next[x]] = x /\ next[prev[x]] = x
  /\ \A part \in SUBSET places :
       Refchain \in part /\ (\A x \in part : next[x] \in part) => part = places
Ring(next, prev) == RingOn(next, prev, On(next))

RingInv ==
  /\ obNext \in [Places -> Places \cup {Null}]
  /\ obPrev \in [Places -> Places \cup {Null}]
  /\ Ring(obNext, obPrev)
  /\ \A o \in Objects : memory[o] = "alive" <=> obNext[o] # Null

LifeInv == LifeShape /\ StackInv /\ DyingInv /\ RefInv /\ RingInv

-----------------------------------------------------------------------------
(* The list of all objects.                                                *)

LEMMA PlacesAre == Null \notin Places /\ Refchain \in Places /\ Objects \subseteq Places
                   /\ Refchain \notin Objects
BY ObjectLifeAssumption DEF Null, Places, Refchain, Objects

\* What _Py_AddToAllObjects() and _Py_ForgetReference() make of the pointers.
NextWith(next, prev, x) == [next EXCEPT ![x] = next[Refchain], ![Refchain] = x]
PrevWith(next, prev, x) == [[prev EXCEPT ![x] = Refchain] EXCEPT ![next[Refchain]] = x]
NextWithout(next, prev, x) == [next EXCEPT ![prev[x]] = next[x], ![x] = Null]
PrevWithout(next, prev, x) == [prev EXCEPT ![next[x]] = prev[x], ![x] = Null]

\* Something put in front of the list.
LEMMA RingInsert ==
  ASSUME NEW next \in [Places -> Places \cup {Null}], NEW prev \in [Places -> Places \cup {Null}],
         Ring(next, prev), NEW x \in Places, next[x] = Null
  PROVE  /\ NextWith(next, prev, x) \in [Places -> Places \cup {Null}]
         /\ PrevWith(next, prev, x) \in [Places -> Places \cup {Null}]
         /\ Ring(NextWith(next, prev, x), PrevWith(next, prev, x))
         /\ \A y \in Places : NextWith(next, prev, x)[y] # Null <=> next[y] # Null \/ y = x
<1> DEFINE next2 == NextWith(next, prev, x)
           prev2 == PrevWith(next, prev, x)
<1>0. /\ next2 = [next EXCEPT ![x] = next[Refchain], ![Refchain] = x]
      /\ prev2 = [[prev EXCEPT ![x] = Refchain] EXCEPT ![next[Refchain]] = x]
  BY DEF NextWith, PrevWith
<1> HIDE DEF next2, prev2
<1> DEFINE S == On(next)
           h == next[Refchain]
<1>1. /\ Refchain \in S /\ S \subseteq Places
      /\ \A y \in Places : y \in S <=> next[y] # Null
      /\ \A y \in Places : prev[y] # Null <=> y \in S
      /\ \A y \in S : next[y] \in S /\ prev[y] \in S
      /\ \A y \in S : prev[next[y]] = y /\ next[prev[y]] = y
      /\ \A part \in SUBSET S :
           Refchain \in part /\ (\A y \in part : next[y] \in part) => part = S
  BY DEF Ring, RingOn, On
<1>2. x \notin S /\ x # Refchain /\ h \in S /\ h # x /\ h \in Places
  BY <1>1
<1>3. /\ next2 \in [Places -> Places \cup {Null}]
      /\ next2[x] = h /\ next2[Refchain] = x
      /\ \A y \in Places : y # x /\ y # Refchain => next2[y] = next[y]
  BY <1>0, <1>1, <1>2, PlacesAre
<1>4. /\ prev2 \in [Places -> Places \cup {Null}]
      /\ prev2[x] = Refchain /\ prev2[h] = x
      /\ \A y \in Places : y # x /\ y # h => prev2[y] = prev[y]
  BY <1>0, <1>1, <1>2, PlacesAre
<1> HIDE DEF S, h
<1>5. \A y \in Places : next2[y] # Null <=> y \in S \/ y = x
  BY <1>1, <1>2, <1>3, PlacesAre
<1>6. \A y \in Places : prev2[y] # Null <=> y \in S \/ y = x
  BY <1>1, <1>2, <1>4, PlacesAre
<1>7. On(next2) = S \cup {x}
  BY <1>1, <1>5 DEF On
<1> DEFINE S2 == S \cup {x}
<1>8. \A y \in S2 : next2[y] \in S2 /\ prev2[y] \in S2
  BY <1>1, <1>2, <1>3, <1>4
<1>9. ASSUME NEW y \in S2
      PROVE  prev2[next2[y]] = y /\ next2[prev2[y]] = y
  <2>1. CASE y = x
    BY <1>2, <1>3, <1>4, <2>1
  <2>2. CASE y \in S
    <3>1. prev2[next2[y]] = y
      <4>1. CASE y = Refchain
        BY <1>3, <1>4, <4>1
      <4>2. CASE y # Refchain
        <5>1. next2[y] = next[y] /\ next[y] \in S /\ prev[next[y]] = y
          BY <1>1, <1>2, <1>3, <2>2, <4>2
        <5>2. next[y] # h
          BY <1>1, <4>2, <5>1 DEF h
        <5>3. QED
          BY <1>1, <1>2, <1>4, <5>1, <5>2
      <4>3. QED
        BY <4>1, <4>2
    <3>2. next2[prev2[y]] = y
      <4>1. CASE y = h
        BY <1>3, <1>4, <4>1
      <4>2. CASE y # h
        <5>1. prev2[y] = prev[y] /\ prev[y] \in S /\ next[prev[y]] = y
          BY <1>1, <1>2, <1>4, <2>2, <4>2
        <5>2. prev[y] # Refchain
          BY <4>2, <5>1 DEF h
        <5>3. QED
          BY <1>1, <1>2, <1>3, <5>1, <5>2
      <4>3. QED
        BY <4>1, <4>2
    <3>3. QED
      BY <3>1, <3>2
  <2>3. QED
    BY <2>1, <2>2
<1>10. ASSUME NEW part \in SUBSET S2, Refchain \in part, \A y \in part : next2[y] \in part
       PROVE  part = S2
  <2>1. x \in part
    BY <1>3, <1>10
  <2>2. h \in part
    BY <1>3, <1>10, <2>1
  <2>3. \A y \in part \ {x} : next[y] \in part \ {x}
    <3>1. ASSUME NEW y \in part \ {x}
          PROVE  next[y] \in part \ {x}
      <4>1. y \in S /\ next[y] \in S /\ next[y] # x
        BY <1>1, <1>2
      <4>2. CASE y = Refchain
        BY <2>2, <4>1, <4>2 DEF h
      <4>3. CASE y # Refchain
        BY <1>1, <1>3, <1>10, <4>1, <4>3
      <4>4. QED
        BY <4>2, <4>3
    <3>2. QED
      BY <3>1
  <2>4. part \ {x} \in SUBSET S /\ Refchain \in part \ {x}
    BY <1>2, <1>10
  <2>5. part \ {x} = S
    BY <1>1, <2>3, <2>4
  <2>6. QED
    BY <2>1, <2>5
<1>11. Ring(next2, prev2)
  <2>1. Refchain \in S2
    BY <1>1
  <2>2. On(next2) = S2
    BY <1>7
  <2> HIDE DEF S2
  <2>3. \A y \in Places : prev2[y] # Null <=> y \in S2
    BY <1>6 DEF S2
  <2>4. \A part \in SUBSET S2 :
          Refchain \in part /\ (\A y \in part : next2[y] \in part) => part = S2
    BY <1>10
  <2>5. \A y \in S2 : prev2[next2[y]] = y /\ next2[prev2[y]] = y
    BY <1>9
  <2>6. RingOn(next2, prev2, S2)
    BY <1>8, <2>1, <2>3, <2>4, <2>5, Zenon DEF RingOn
  <2>7. QED
    BY <2>2, <2>6, Zenon DEF Ring
<1>12. QED
  BY <1>1, <1>3, <1>4, <1>5, <1>11 DEF next2, prev2

\* Something taken from the list.
LEMMA RingRemove ==
  ASSUME NEW next \in [Places -> Places \cup {Null}], NEW prev \in [Places -> Places \cup {Null}],
         Ring(next, prev), NEW x \in Places, next[x] # Null, x # Refchain
  PROVE  /\ NextWithout(next, prev, x) \in [Places -> Places \cup {Null}]
         /\ PrevWithout(next, prev, x) \in [Places -> Places \cup {Null}]
         /\ Ring(NextWithout(next, prev, x), PrevWithout(next, prev, x))
         /\ \A y \in Places : NextWithout(next, prev, x)[y] # Null <=> next[y] # Null /\ y # x
<1> DEFINE next2 == NextWithout(next, prev, x)
           prev2 == PrevWithout(next, prev, x)
<1>0. /\ next2 = [next EXCEPT ![prev[x]] = next[x], ![x] = Null]
      /\ prev2 = [prev EXCEPT ![next[x]] = prev[x], ![x] = Null]
  BY DEF NextWithout, PrevWithout
<1> HIDE DEF next2, prev2
<1> DEFINE S == On(next)
           a == prev[x]
           b == next[x]
<1>1. /\ Refchain \in S /\ S \subseteq Places
      /\ \A y \in Places : y \in S <=> next[y] # Null
      /\ \A y \in Places : prev[y] # Null <=> y \in S
      /\ \A y \in S : next[y] \in S /\ prev[y] \in S
      /\ \A y \in S : prev[next[y]] = y /\ next[prev[y]] = y
      /\ \A part \in SUBSET S :
           Refchain \in part /\ (\A y \in part : next[y] \in part) => part = S
  BY DEF Ring, RingOn, On
<1>2. x \in S /\ a \in S /\ b \in S /\ a \in Places /\ b \in Places
      /\ next[a] = x /\ prev[b] = x
  BY <1>1
<1>3. /\ next2 \in [Places -> Places \cup {Null}]
      /\ next2[x] = Null
      /\ a # x => next2[a] = b
      /\ \A y \in Places : y # x /\ y # a => next2[y] = next[y]
  BY <1>0, <1>2, PlacesAre
<1>4. /\ prev2 \in [Places -> Places \cup {Null}]
      /\ prev2[x] = Null
      /\ b # x => prev2[b] = a
      /\ \A y \in Places : y # x /\ y # b => prev2[y] = prev[y]
  BY <1>0, <1>2, PlacesAre
<1>5. a # x <=> b # x
  BY <1>1, <1>2
<1> DEFINE S2 == S \ {x}
<1> HIDE DEF S, a, b
<1>6. \A y \in Places : next2[y] # Null <=> y \in S /\ y # x
  BY <1>1, <1>2, <1>3, PlacesAre
<1>7. \A y \in Places : prev2[y] # Null <=> y \in S /\ y # x
  BY <1>1, <1>2, <1>4, PlacesAre
<1>8. ASSUME NEW y \in S2
      PROVE  /\ next2[y] \in S2 /\ prev2[y] \in S2
             /\ prev2[next2[y]] = y /\ next2[prev2[y]] = y
             /\ y = a => next2[y] = b
             /\ y # a => next2[y] = next[y] /\ next[y] # x
  <2>1. y \in S /\ y # x /\ y \in Places
    BY <1>1
  <2>2. next2[y] \in S2 /\ prev2[next2[y]] = y
    <3>1. CASE y = a
      <4>1. b # x /\ next2[y] = b /\ prev2[b] = a
        BY <1>3, <1>4, <1>5, <2>1, <3>1
      <4>2. QED
        BY <1>2, <3>1, <4>1
    <3>2. CASE y # a
      <4>1. next2[y] = next[y] /\ next[y] \in S /\ prev[next[y]] = y
        BY <1>1, <1>3, <2>1, <3>2
      <4>2. next[y] # x
        BY <3>2, <4>1 DEF a
      <4>3. next[y] # b
        BY <1>2, <2>1, <4>1
      <4>4. prev2[next[y]] = prev[next[y]]
        BY <1>1, <1>4, <4>1, <4>2, <4>3
      <4>5. QED
        BY <4>1, <4>2, <4>4
    <3>3. QED
      BY <3>1, <3>2
  <2>3. prev2[y] \in S2 /\ next2[prev2[y]] = y
    <3>1. CASE y = b
      <4>1. a # x /\ prev2[y] = a /\ next2[a] = b
        BY <1>3, <1>4, <1>5, <2>1, <3>1
      <4>2. QED
        BY <1>2, <3>1, <4>1
    <3>2. CASE y # b
      <4>1. prev2[y] = prev[y] /\ prev[y] \in S /\ next[prev[y]] = y
        BY <1>1, <1>4, <2>1, <3>2
      <4>2. prev[y] # x
        BY <3>2, <4>1 DEF b
      <4>3. prev[y] # a
        BY <1>2, <2>1, <4>1
      <4>4. next2[prev[y]] = next[prev[y]]
        BY <1>1, <1>3, <4>1, <4>2, <4>3
      <4>5. QED
        BY <4>1, <4>2, <4>4
    <3>3. QED
      BY <3>1, <3>2
  <2>4. y # a => next2[y] = next[y] /\ next[y] # x
    <3>1. y # a => next[y] # x
      BY <1>1, <2>1 DEF a
    <3>2. QED
      BY <1>3, <2>1, <3>1
  <2>5. y = a => next2[y] = b
    BY <1>3, <2>1
  <2>6. QED
    BY <2>2, <2>3, <2>4, <2>5
<1>9. ASSUME NEW part \in SUBSET S2, Refchain \in part, \A y \in part : next2[y] \in part
      PROVE  part = S2
  <2>1. CASE a \in part
    <3> DEFINE more == part \cup {x}
    <3>1. b \in part
      <4>1. a \in S2
        BY <1>9, <2>1
      <4>2. next2[a] = b
        BY <1>8, <4>1
      <4>3. QED
        BY <1>9, <2>1, <4>2
    <3>2. ASSUME NEW y \in more
          PROVE  next[y] \in more
      <4>1. CASE y = x
        BY <3>1, <4>1 DEF b
      <4>2. CASE y = a
        BY <1>2, <4>2
      <4>3. CASE y # x /\ y # a
        <5>1. y \in part /\ y \in S2 /\ next2[y] = next[y]
          BY <1>8, <1>9, <4>3
        <5>2. QED
          BY <1>9, <5>1
      <4>4. QED
        BY <4>1, <4>2, <4>3
    <3>3. more \in SUBSET S /\ Refchain \in more
      BY <1>2, <1>9
    <3>4. more = S
      <4> HIDE DEF more
      <4> QED
        BY <1>1, <3>2, <3>3
    <3>5. x \notin part
      BY <1>9
    <3>6. QED
      BY <3>4, <3>5
  <2>2. CASE a \notin part
    <3>1. ASSUME NEW y \in part
          PROVE  next[y] \in part
      <4>1. y \in S2 /\ y # a
        BY <1>9, <2>2
      <4>2. next2[y] = next[y]
        BY <1>8, <4>1
      <4>3. QED
        BY <1>9, <4>2
    <3>2. part \in SUBSET S
      BY <1>9
    <3>3. part = S
      BY <1>1, <1>9, <3>1, <3>2
    <3>4. QED
      BY <1>2, <1>9, <3>3
  <2>3. QED
    BY <2>1, <2>2
<1>10. Ring(next2, prev2)
  <2>1. Refchain \in S2 /\ On(next2) = S2
    BY <1>1, <1>6 DEF On
  <2>2. \A y \in Places : prev2[y] # Null <=> y \in S2
    BY <1>7
  <2> HIDE DEF S2
  <2>3. \A y \in S2 : next2[y] \in S2 /\ prev2[y] \in S2
    BY <1>8
  <2>4. \A y \in S2 : prev2[next2[y]] = y /\ next2[prev2[y]] = y
    BY <1>8
  <2>5. \A part \in SUBSET S2 :
          Refchain \in part /\ (\A y \in part : next2[y] \in part) => part = S2
    BY <1>9
  <2>6. RingOn(next2, prev2, S2)
    BY <2>1, <2>2, <2>3, <2>4, <2>5, Zenon DEF RingOn
  <2>7. QED
    BY <2>1, <2>6, Zenon DEF Ring
<1>11. QED
  BY <1>1, <1>3, <1>4, <1>6, <1>10 DEF next2, prev2

-----------------------------------------------------------------------------
(* The places of references, counted.                                      *)

LEMMA ObjectsFinite == IsFiniteSet(Objects) /\ \A T \in SUBSET Objects : IsFiniteSet(T)
<1>1. 1 \in Int /\ MaxObjects \in Int
  BY ObjectLifeAssumption
<1>2. IsFiniteSet(Objects)
  BY <1>1, FS_Interval DEF Objects
<1>3. QED
  BY <1>2, FS_Subset

LEMMA OneMore ==
  ASSUME NEW S, IsFiniteSet(S), NEW x, x \notin S
  PROVE  Cardinality(S) \in Nat /\ Cardinality(S \cup {x}) = Cardinality(S) + 1
BY FS_AddElement, FS_CardinalityType

LEMMA OneLess ==
  ASSUME NEW S, IsFiniteSet(S), NEW x, x \in S
  PROVE  /\ Cardinality(S) \in Nat /\ Cardinality(S \ {x}) \in Nat
         /\ Cardinality(S) = Cardinality(S \ {x}) + 1
<1>1. Cardinality(S) \in Nat /\ Cardinality(S \ {x}) = Cardinality(S) - 1
  BY FS_RemoveElement, FS_CardinalityType
<1>2. IsFiniteSet(S \ {x})
  BY FS_RemoveElement
<1>3. Cardinality(S \ {x}) \in Nat
  BY <1>2, FS_CardinalityType
<1>4. QED
  BY <1>1, <1>3

\* The references of one more call.
Adds(o, frame, cont) ==
  IF o \in frame.todo \/ (frame.at = "begin" /\ o \in cont[frame.op]) THEN 1 ELSE 0

LEMMA CallsFinite ==
  ASSUME NEW stack \in Seq(Frames), NEW o, NEW cont
  PROVE  IsFiniteSet(InCalls(o, stack, cont)) /\ Cardinality(InCalls(o, stack, cont)) \in Nat
<1>1. 1 \in Int /\ Len(stack) \in Int /\ DOMAIN stack = 1 .. Len(stack)
  OBVIOUS
<1>2. IsFiniteSet(DOMAIN stack)
  BY <1>1, FS_Interval
<1>3. InCalls(o, stack, cont) \subseteq DOMAIN stack
  BY DEF InCalls
<1>4. QED
  BY <1>2, <1>3, FS_Subset, FS_CardinalityType

LEMMA CallsAppend ==
  ASSUME NEW stack \in Seq(Frames), NEW f \in Frames, NEW o, NEW cont
  PROVE  Cardinality(InCalls(o, Append(stack, f), cont))
           = Cardinality(InCalls(o, stack, cont)) + Adds(o, f, cont)
<1> DEFINE n == Len(stack)
           more == Append(stack, f)
           S == InCalls(o, stack, cont)
           T == InCalls(o, more, cont)
<1>1. n \in Nat /\ DOMAIN stack = 1 .. n /\ DOMAIN more = 1 .. n + 1
      /\ more[n + 1] = f /\ \A i \in 1 .. n : more[i] = stack[i]
  OBVIOUS
<1>2. IsFiniteSet(S) /\ Cardinality(S) \in Nat
  BY CallsFinite
<1>3. \A i \in 1 .. n : (i \in S) <=>
        (o \in stack[i].todo \/ (stack[i].at = "begin" /\ o \in cont[stack[i].op]))
  BY <1>1 DEF InCalls
<1>4. \A i \in 1 .. n + 1 : (i \in T) <=>
        (o \in more[i].todo \/ (more[i].at = "begin" /\ o \in cont[more[i].op]))
  BY <1>1 DEF InCalls
<1>5. S \subseteq 1 .. n /\ T \subseteq 1 .. n + 1
  BY <1>1 DEF InCalls
<1> HIDE DEF n, more, S, T
<1>6. \A i \in 1 .. n : i \in T <=> i \in S
  BY <1>1, <1>3, <1>4
<1>7. n + 1 \notin S
  BY <1>1, <1>5
<1>8. n + 1 \in T <=> Adds(o, f, cont) = 1
  BY <1>1, <1>4 DEF Adds
<1>9. CASE n + 1 \in T
  <2>1. T = S \cup {n + 1}
    <3>1. \A i \in 1 .. n + 1 : i \in 1 .. n \/ i = n + 1
      BY <1>1
    <3>2. \A i \in 1 .. n : i \in 1 .. n + 1
      BY <1>1
    <3>3. QED
      BY <1>5, <1>6, <1>9, <3>1, <3>2
  <2>2. Cardinality(T) = Cardinality(S) + 1
    BY <1>2, <1>7, <2>1, OneMore
  <2>3. QED
    BY <1>8, <1>9, <2>2 DEF S, T, more
<1>10. CASE n + 1 \notin T
  <2>1. T = S
    <3>1. \A i \in 1 .. n + 1 : i \in 1 .. n \/ i = n + 1
      BY <1>1
    <3>2. \A i \in 1 .. n : i \in 1 .. n + 1
      BY <1>1
    <3>3. QED
      BY <1>5, <1>6, <1>10, <3>1, <3>2
  <2>2. Adds(o, f, cont) = 0
    BY <1>8, <1>10 DEF Adds
  <2>3. QED
    BY <1>2, <2>1, <2>2 DEF S, T, more
<1>11. QED
  BY <1>9, <1>10

LEMMA TrashFinite ==
  ASSUME NEW lat, NEW o, NEW cont
  PROVE  IsFiniteSet(InTrash(o, lat, cont)) /\ Cardinality(InTrash(o, lat, cont)) \in Nat
BY ObjectsFinite, FS_CardinalityType DEF InTrash

\* The references of one more object in the trash.
LEMMA TrashMore ==
  ASSUME NEW lat, NEW lat2, NEW p \in Objects, p \notin ToSet(lat),
         ToSet(lat2) = ToSet(lat) \cup {p}, NEW o, NEW cont
  PROVE  Cardinality(InTrash(o, lat2, cont))
           = Cardinality(InTrash(o, lat, cont)) + (IF o \in cont[p] THEN 1 ELSE 0)
<1> DEFINE S == InTrash(o, lat, cont)
           T == InTrash(o, lat2, cont)
<1>1. IsFiniteSet(S) /\ Cardinality(S) \in Nat
  BY TrashFinite
<1>2. p \notin S
  BY DEF InTrash
<1>3. CASE o \in cont[p]
  <2>1. T = S \cup {p}
    BY <1>3 DEF InTrash
  <2>2. Cardinality(T) = Cardinality(S) + 1
    <3> HIDE DEF S, T
    <3> QED
      BY <1>1, <1>2, <2>1, OneMore
  <2>3. QED
    BY <1>3, <2>2
<1>4. CASE o \notin cont[p]
  <2>1. T = S
    BY <1>4 DEF InTrash
  <2> HIDE DEF S, T
  <2>2. Cardinality(T) = Cardinality(S) + 0
    BY <1>1, <2>1
  <2>3. QED
    BY <1>4, <2>2 DEF S, T
<1>5. QED
  BY <1>3, <1>4

LEMMA AliveFinite ==
  ASSUME NEW o, NEW mem, NEW cont
  PROVE  IsFiniteSet(InAlive(o, mem, cont)) /\ Cardinality(InAlive(o, mem, cont)) \in Nat
BY ObjectsFinite, FS_CardinalityType DEF InAlive

\* The references of one object alive less.
LEMMA AliveLess ==
  ASSUME NEW mem, NEW mem2, NEW p \in Objects, mem[p] = "alive", mem2[p] # "alive",
         \A q \in Objects : q # p => mem2[q] = mem[q], NEW o, NEW cont
  PROVE  Cardinality(InAlive(o, mem, cont))
           = Cardinality(InAlive(o, mem2, cont)) + (IF o \in cont[p] THEN 1 ELSE 0)
<1> DEFINE S == InAlive(o, mem2, cont)
           T == InAlive(o, mem, cont)
<1>1. IsFiniteSet(S) /\ Cardinality(S) \in Nat
  BY AliveFinite
<1>2. p \notin S
  BY DEF InAlive
<1>3. CASE o \in cont[p]
  <2>1. T = S \cup {p}
    BY <1>3 DEF InAlive
  <2>2. Cardinality(T) = Cardinality(S) + 1
    <3> HIDE DEF S, T
    <3> QED
      BY <1>1, <1>2, <2>1, OneMore
  <2>3. QED
    BY <1>3, <2>2
<1>4. CASE o \notin cont[p]
  <2>1. T = S
    BY <1>4 DEF InAlive
  <2> HIDE DEF S, T
  <2>2. Cardinality(T) = Cardinality(S) + 0
    BY <1>1, <2>1
  <2>3. QED
    BY <1>4, <2>2 DEF S, T
<1>5. QED
  BY <1>3, <1>4

\* An object that dies is in a call of tp_dealloc(), which has its references.
LEMMA RefsDying ==
  ASSUME NEW mem, NEW mem2, NEW p \in Objects, mem[p] = "alive", mem2[p] = "dying",
         \A q \in Objects : q # p => mem2[q] = mem[q],
         NEW stack \in Seq(Frames), NEW o, NEW cont, NEW lat, NEW had
  PROVE  Refs(o, mem2, cont, lat, Append(stack, Dealloc(p)), had)
           = Refs(o, mem, cont, lat, stack, had)
<1> DEFINE a == Cardinality(InAlive(o, mem, cont))
           a2 == Cardinality(InAlive(o, mem2, cont))
           c == Cardinality(InCalls(o, stack, cont))
           c2 == Cardinality(InCalls(o, Append(stack, Dealloc(p)), cont))
           t == Cardinality(InTrash(o, lat, cont))
           h == IF o \in had THEN 1 ELSE 0
           d == IF o \in cont[p] THEN 1 ELSE 0
<1>1. a \in Nat /\ a2 \in Nat /\ c \in Nat /\ t \in Nat /\ h \in Nat /\ d \in Nat
  BY AliveFinite, CallsFinite, TrashFinite
<1>2. a = a2 + d
  BY AliveLess
<1>3. c2 = c + d
  <2>1. Dealloc(p) \in Frames
    BY DEF Dealloc, Frames, Objects
  <2>2. Adds(o, Dealloc(p), cont) = d
    BY DEF Adds, Dealloc
  <2>3. QED
    BY <2>1, <2>2, CallsAppend
<1> HIDE DEF a, a2, c, c2, t, h, d
<1>4. a2 + t + c2 + h = a + t + c + h
  BY <1>1, <1>2, <1>3
<1>5. QED
  BY <1>4 DEF Refs, a, a2, c, c2, t, h

-----------------------------------------------------------------------------
(* The stack and the trash.                                                *)

\* A stack with one more call.
LEMMA AppendIs ==
  ASSUME NEW stack \in Seq(Frames), NEW f \in Frames
  PROVE  /\ Append(stack, f) \in Seq(Frames) /\ Len(stack) \in Nat
         /\ Len(Append(stack, f)) = Len(stack) + 1
         /\ Append(stack, f)[Len(stack) + 1] = f
         /\ \A i \in 1 .. Len(stack) : Append(stack, f)[i] = stack[i]
         /\ \A i \in 1 .. Len(stack) + 1 : i \in 1 .. Len(stack) \/ i = Len(stack) + 1
         /\ \A i \in 1 .. Len(stack) : i \in 1 .. Len(stack) + 1
  OBVIOUS

\* The innermost call, and those below it.
LEMMA TopIs ==
  ASSUME LifeShape, calls # <<>>
  PROVE  /\ Len(calls) \in Nat /\ Len(calls) > 0 /\ Top = calls[Len(calls)] /\ Top \in Frames
         /\ Returned \in Seq(Frames) /\ Len(Returned) = Len(calls) - 1
         /\ \A i \in 1 .. Len(calls) - 1 : Returned[i] = calls[i]
         /\ calls = Append(Returned, Top)
         /\ \A f : Now(f) = Append(Returned, f)
<1> DEFINE n == Len(calls)
           R == Front(calls)
<1>1. calls \in Seq(Frames)
  BY DEF LifeShape
<1>2. n \in Nat /\ n > 0 /\ calls[n] \in Frames
  BY <1>1
<1>3. Returned = R /\ \A f : Now(f) = Append(Returned, f)
  BY DEF Returned, Now
<1>4. /\ R \in Seq(Frames) /\ Len(R) = n - 1 /\ \A i \in 1 .. n - 1 : R[i] = calls[i]
      /\ Top = calls[n]
  BY <1>1, FrontIs DEF Top
<1>5. calls = Append(R, calls[n])
  <2> HIDE DEF R
  <2> DEFINE s == Append(R, calls[n])
  <2>1. s \in Seq(Frames) /\ Len(s) = n /\ s[n] = calls[n]
        /\ \A i \in 1 .. n - 1 : s[i] = calls[i]
    BY <1>2, <1>4
  <2> HIDE DEF s
  <2>2. \A i \in 1 .. Len(calls) : calls[i] = s[i]
    <3>1. \A i \in 1 .. n : i \in 1 .. n - 1 \/ i = n
      BY <1>2
    <3>2. QED
      BY <2>1, <3>1
  <2>3. calls = s
    BY <1>1, <2>1, <2>2, SeqEqual
  <2>4. QED
    BY <2>3 DEF s
<1>6. QED
  BY <1>2, <1>3, <1>4, <1>5

\* tp_dealloc() is called.
LEMMA StackPush ==
  ASSUME NEW stack \in Seq(Frames), NEW p \in Objects, NEW nest \in Nat, NEW lat, NEW lat2,
         StackOf(stack, nest, lat),
         Len(stack) > 0 => stack[Len(stack)].at \in {"body", "called"}
  PROVE  StackOf(Append(stack, Dealloc(p)), nest, lat2)
<1> DEFINE n == Len(stack)
           more == Append(stack, Dealloc(p))
<1>1. Dealloc(p) \in Frames
  BY DEF Dealloc, Frames, Objects
<1>2. /\ n \in Nat /\ Len(more) = n + 1 /\ more[n + 1] = Dealloc(p)
      /\ \A i \in 1 .. n : more[i] = stack[i]
      /\ \A i \in 1 .. n + 1 : i \in 1 .. n \/ i = n + 1
  BY <1>1, AppendIs
<1>3. Dealloc(p).op = p /\ Dealloc(p).at = "begin" /\ Dealloc(p).todo = {}
  BY DEF Dealloc
<1>4. nest = n
  BY <1>2 DEF StackOf
<1> HIDE DEF more
<1>5. ASSUME NEW i \in 1 .. n + 1
      PROVE  /\ Deallocs(more[i]) => more[i].op \in Objects
             /\ more[i].at # "body" => more[i].todo = {}
             /\ more[i].at \in {"chain", "called"} => i = 1
             /\ i < n + 1 => more[i].at \in {"body", "called"}
  <2>1. CASE i \in 1 .. n
    <3>1. more[i] = stack[i]
      BY <1>2, <2>1
    <3>2. stack[i].at \in {"body", "called"}
      <4>1. i < n \/ i = n
        BY <1>2, <2>1
      <4>2. QED
        BY <2>1, <4>1 DEF StackOf
    <3>3. QED
      BY <2>1, <3>1, <3>2 DEF StackOf
  <2>2. CASE i = n + 1
    BY <1>2, <1>3, <2>2
  <2>3. QED
    BY <1>2, <2>1, <2>2
<1>6. QED
  BY <1>2, <1>3, <1>4, <1>5 DEF StackOf, more

LEMMA DyingPush ==
  ASSUME NEW stack \in Seq(Frames), NEW p \in Objects, NEW lat, NEW mem, NEW mem2,
         DyingIn(mem, stack, lat), mem[p] # "dying", mem2[p] = "dying",
         \A o \in Objects : o # p => mem2[o] = mem[o]
  PROVE  DyingIn(mem2, Append(stack, Dealloc(p)), lat)
<1> DEFINE n == Len(stack)
           more == Append(stack, Dealloc(p))
<1>1. Dealloc(p) \in Frames /\ Dealloc(p).op = p /\ Deallocs(Dealloc(p))
  BY DEF Dealloc, Frames, Objects, Deallocs
<1>2. /\ n \in Nat /\ Len(more) = n + 1 /\ more[n + 1] = Dealloc(p)
      /\ \A i \in 1 .. n : more[i] = stack[i]
      /\ \A i \in 1 .. n + 1 : i \in 1 .. n \/ i = n + 1
      /\ \A i \in 1 .. n : i \in 1 .. n + 1
      /\ n + 1 \in 1 .. n + 1
  BY <1>1, AppendIs
<1> HIDE DEF more, n
<1>3. \A o : Calling(o, more) <=> Calling(o, stack) \/ o = p
  <2>1. \A o : Calling(o, stack) => Calling(o, more)
    BY <1>2 DEF Calling, n
  <2>2. Calling(p, more)
    BY <1>1, <1>2 DEF Calling
  <2>3. \A o : Calling(o, more) => Calling(o, stack) \/ o = p
    BY <1>1, <1>2 DEF Calling, n
  <2>4. QED
    BY <2>1, <2>2, <2>3
<1>4. ~Calling(p, stack) /\ ~Waiting(p, lat)
  BY DEF DyingIn
<1>5. ASSUME NEW i \in 1 .. n + 1, NEW j \in 1 .. n + 1,
             Deallocs(more[i]), Deallocs(more[j]), more[i].op = more[j].op
      PROVE  i = j
  <2>1. CASE i \in 1 .. n /\ j \in 1 .. n
    BY <1>2, <1>5, <2>1 DEF DyingIn, n
  <2>2. CASE i \in 1 .. n /\ j = n + 1
    BY <1>1, <1>2, <1>4, <1>5, <2>2 DEF Calling, n
  <2>3. CASE i = n + 1 /\ j \in 1 .. n
    BY <1>1, <1>2, <1>4, <1>5, <2>3 DEF Calling, n
  <2>4. QED
    BY <1>2, <2>1, <2>2, <2>3
<1>6. \A o \in Objects : mem2[o] = "dying" <=> Calling(o, more) \/ Waiting(o, lat)
  BY <1>3 DEF DyingIn
<1>7. \A o \in Objects : ~(Calling(o, more) /\ Waiting(o, lat))
  BY <1>3, <1>4 DEF DyingIn
<1>8. \A i, j \in 1 .. Len(lat) : lat[i] = lat[j] => i = j
  BY DEF DyingIn
<1>9. QED
  BY <1>2, <1>5, <1>6, <1>7, <1>8 DEF DyingIn, more

\* tp_dealloc() returns: what it was about is not in another call of it.
LEMMA DyingPop ==
  ASSUME NEW stack \in Seq(Frames), NEW f \in Frames, Deallocs(f), f.op \in Objects,
         NEW lat, NEW mem, NEW mem2,
         DyingIn(mem, Append(stack, f), lat), mem2[f.op] # "dying",
         \A o \in Objects : o # f.op => mem2[o] = mem[o]
  PROVE  DyingIn(mem2, stack, lat) /\ ~Waiting(f.op, lat) /\ mem[f.op] = "dying"
<1> DEFINE n == Len(stack)
           more == Append(stack, f)
<1>1. /\ n \in Nat /\ Len(more) = n + 1 /\ more[n + 1] = f
      /\ \A i \in 1 .. n : more[i] = stack[i]
      /\ \A i \in 1 .. n + 1 : i \in 1 .. n \/ i = n + 1
      /\ \A i \in 1 .. n : i \in 1 .. n + 1 /\ i # n + 1
      /\ n + 1 \in 1 .. n + 1
  BY AppendIs
<1>2. DyingIn(mem, more, lat)
  OBVIOUS
<1> HIDE DEF more, n
<1>3. Calling(f.op, more)
  BY <1>1 DEF Calling
<1>4. ~Calling(f.op, stack)
  <2> SUFFICES ASSUME NEW i \in 1 .. n, Deallocs(stack[i]), stack[i].op = f.op PROVE FALSE
    BY DEF Calling, n
  <2>1. i \in 1 .. Len(more) /\ more[i] = stack[i] /\ n + 1 \in 1 .. Len(more) /\ i # n + 1
    BY <1>1
  <2>2. i = n + 1
    BY <1>1, <1>2, <2>1 DEF DyingIn
  <2>3. QED
    BY <2>1, <2>2
<1>5. \A o : o # f.op => (Calling(o, more) <=> Calling(o, stack))
  <2>1. \A o : Calling(o, stack) => Calling(o, more)
    BY <1>1 DEF Calling, n
  <2>2. \A o : o # f.op /\ Calling(o, more) => Calling(o, stack)
    BY <1>1 DEF Calling, n
  <2>3. QED
    BY <2>1, <2>2
<1>6. ~Waiting(f.op, lat) /\ mem[f.op] = "dying"
  BY <1>2, <1>3 DEF DyingIn
<1>7. \A o \in Objects : mem2[o] = "dying" <=> Calling(o, stack) \/ Waiting(o, lat)
  BY <1>2, <1>4, <1>5, <1>6 DEF DyingIn
<1>8. \A o \in Objects : ~(Calling(o, stack) /\ Waiting(o, lat))
  BY <1>2, <1>5, <1>6 DEF DyingIn
<1>9. \A i, j \in 1 .. Len(stack) :
        Deallocs(stack[i]) /\ Deallocs(stack[j]) /\ stack[i].op = stack[j].op => i = j
  BY <1>1, <1>2 DEF DyingIn, n
<1>10. \A i, j \in 1 .. Len(lat) : lat[i] = lat[j] => i = j
  BY <1>2 DEF DyingIn
<1>11. QED
  BY <1>6, <1>7, <1>8, <1>9, <1>10 DEF DyingIn

\* Other calls do not matter, nor does what a call of tp_dealloc() has done.
LEMMA DyingSame ==
  ASSUME NEW stack \in Seq(Frames), NEW f \in Frames, NEW g \in Frames, NEW lat, NEW mem,
         Deallocs(f) <=> Deallocs(g), f.op = g.op \/ ~Deallocs(f),
         DyingIn(mem, Append(stack, f), lat)
  PROVE  DyingIn(mem, Append(stack, g), lat)
<1> DEFINE n == Len(stack)
           s == Append(stack, f)
           t == Append(stack, g)
<1>1. /\ n \in Nat /\ Len(s) = n + 1 /\ s[n + 1] = f /\ Len(t) = n + 1 /\ t[n + 1] = g
      /\ \A i \in 1 .. n : s[i] = stack[i] /\ t[i] = stack[i]
      /\ \A i \in 1 .. n + 1 : i \in 1 .. n \/ i = n + 1
  BY AppendIs
<1>2. DyingIn(mem, s, lat)
  OBVIOUS
<1> HIDE DEF s, t, n
<1>3. \A i \in 1 .. n + 1 : /\ Deallocs(s[i]) <=> Deallocs(t[i])
                            /\ Deallocs(s[i]) => s[i].op = t[i].op
  BY <1>1
<1>4. \A o : Calling(o, s) <=> Calling(o, t)
  BY <1>1, <1>3 DEF Calling
<1>5. \A i, j \in 1 .. Len(t) : Deallocs(t[i]) /\ Deallocs(t[j]) /\ t[i].op = t[j].op => i = j
  BY <1>1, <1>2, <1>3 DEF DyingIn
<1>6. QED
  BY <1>2, <1>4, <1>5 DEF DyingIn, t

LEMMA DyingSkip ==
  ASSUME NEW stack \in Seq(Frames), NEW f \in Frames, NEW lat, NEW mem, ~Deallocs(f)
  PROVE  DyingIn(mem, Append(stack, f), lat) <=> DyingIn(mem, stack, lat)
<1> DEFINE n == Len(stack)
           s == Append(stack, f)
<1>1. /\ n \in Nat /\ Len(s) = n + 1 /\ s[n + 1] = f
      /\ \A i \in 1 .. n : s[i] = stack[i]
      /\ \A i \in 1 .. n + 1 : i \in 1 .. n \/ i = n + 1
      /\ \A i \in 1 .. n : i \in 1 .. n + 1
  BY AppendIs
<1> HIDE DEF s
<1>2. \A o : Calling(o, s) <=> Calling(o, stack)
  BY <1>1 DEF Calling
<1>3. (\A i, j \in 1 .. Len(s) : Deallocs(s[i]) /\ Deallocs(s[j]) /\ s[i].op = s[j].op => i = j)
        <=> (\A i, j \in 1 .. n : Deallocs(stack[i]) /\ Deallocs(stack[j])
                                  /\ stack[i].op = stack[j].op => i = j)
  <2>1. ASSUME NEW i \in 1 .. Len(s), NEW j \in 1 .. Len(s), Deallocs(s[i]), Deallocs(s[j])
        PROVE  i \in 1 .. n /\ j \in 1 .. n /\ s[i] = stack[i] /\ s[j] = stack[j]
    BY <1>1, <2>1
  <2>2. ASSUME NEW i \in 1 .. n, NEW j \in 1 .. n
        PROVE  i \in 1 .. Len(s) /\ j \in 1 .. Len(s) /\ s[i] = stack[i] /\ s[j] = stack[j]
    BY <1>1
  <2> HIDE DEF n
  <2>3. QED
    BY <2>1, <2>2
<1>4. QED
  BY <1>2, <1>3, Zenon DEF DyingIn, s

\* The trash.
LEMMA TrashIs ==
  ASSUME NEW lat \in Seq(Objects), NEW p \in Objects
  PROVE  /\ <<p>> \o lat \in Seq(Objects) /\ Len(<<p>> \o lat) = Len(lat) + 1
         /\ (<<p>> \o lat)[1] = p /\ \A i \in 1 .. Len(lat) : (<<p>> \o lat)[i + 1] = lat[i]
         /\ \A o : Waiting(o, <<p>> \o lat) <=> o = p \/ Waiting(o, lat)
         /\ \A o : o \in ToSet(lat) <=> Waiting(o, lat)
         /\ ToSet(<<p>> \o lat) = ToSet(lat) \cup {p}
<1> DEFINE s == <<p>> \o lat
           n == Len(lat)
<1>1. n \in Nat /\ s \in Seq(Objects) /\ Len(s) = n + 1 /\ s[1] = p
      /\ \A i \in 1 .. n : s[i + 1] = lat[i]
  OBVIOUS
<1>2. \A i \in 1 .. n + 1 : i = 1 \/ (i - 1 \in 1 .. n /\ i = (i - 1) + 1)
  BY <1>1
<1>3. \A i \in 1 .. n : i + 1 \in 1 .. n + 1
  BY <1>1
<1>4. DOMAIN s = 1 .. n + 1 /\ DOMAIN lat = 1 .. n /\ 1 \in 1 .. n + 1
  BY <1>1
<1>5. \A o : o \in ToSet(lat) <=> Waiting(o, lat)
  BY <1>4 DEF ToSet, Waiting
<1>6. \A o : o \in ToSet(s) <=> Waiting(o, s)
  BY <1>1, <1>4 DEF ToSet, Waiting
<1> HIDE DEF s
<1>7. \A o : Waiting(o, s) <=> o = p \/ Waiting(o, lat)
  <2>1. \A i \in 1 .. n + 1 : s[i] = p \/ (i - 1 \in 1 .. n /\ s[i] = lat[i - 1])
    BY <1>1, <1>2
  <2>2. \A o : Waiting(o, s) => o = p \/ Waiting(o, lat)
    BY <1>1, <2>1 DEF Waiting
  <2>3. Waiting(p, s)
    BY <1>1, <1>4 DEF Waiting
  <2>4. \A o : Waiting(o, lat) => Waiting(o, s)
    BY <1>1, <1>3 DEF Waiting
  <2>5. QED
    BY <2>2, <2>3, <2>4
<1>8. ToSet(s) = ToSet(lat) \cup {p}
  BY <1>5, <1>6, <1>7
<1>9. QED
  BY <1>1, <1>5, <1>7, <1>8 DEF s

LEMMA DyingDeposit ==
  ASSUME NEW stack, NEW lat \in Seq(Objects), NEW p \in Objects, NEW mem, NEW mem2,
         DyingIn(mem, stack, lat), mem[p] # "dying", mem2[p] = "dying",
         \A o \in Objects : o # p => mem2[o] = mem[o]
  PROVE  DyingIn(mem2, stack, <<p>> \o lat)
<1> DEFINE s == <<p>> \o lat
           n == Len(lat)
<1>1. n \in Nat /\ Len(s) = n + 1 /\ s[1] = p /\ \A i \in 1 .. n : s[i + 1] = lat[i]
  BY TrashIs
<1>2. \A o : Waiting(o, s) <=> o = p \/ Waiting(o, lat)
  BY TrashIs
<1> HIDE DEF s
<1>3. ~Calling(p, stack) /\ ~Waiting(p, lat)
  BY DEF DyingIn
<1>4. ASSUME NEW i \in 1 .. n + 1, NEW j \in 1 .. n + 1, s[i] = s[j]
      PROVE  i = j
  <2>1. \A k \in 1 .. n + 1 : k = 1 \/ (k - 1 \in 1 .. n /\ s[k] = lat[k - 1])
    <3>1. ASSUME NEW k \in 1 .. n + 1, k # 1
          PROVE  k - 1 \in 1 .. n /\ s[k] = lat[k - 1]
      <4>1. k - 1 \in 1 .. n /\ (k - 1) + 1 = k
        BY <1>1, <3>1
      <4>2. QED
        BY <1>1, <4>1
    <3>2. QED
      BY <3>1
  <2>2. \A k \in 1 .. n : lat[k] # p
    BY <1>3 DEF Waiting
  <2>3. CASE i = 1 /\ j = 1
    BY <2>3
  <2>4. CASE i = 1 /\ j # 1
    BY <1>1, <1>4, <2>1, <2>2, <2>4
  <2>5. CASE i # 1 /\ j = 1
    BY <1>1, <1>4, <2>1, <2>2, <2>5
  <2>6. CASE i # 1 /\ j # 1
    <3>1. i - 1 \in 1 .. n /\ j - 1 \in 1 .. n /\ lat[i - 1] = lat[j - 1]
      BY <1>4, <2>1, <2>6
    <3>2. i - 1 = j - 1
      BY <3>1 DEF DyingIn
    <3>3. QED
      BY <1>1, <3>2
  <2>7. QED
    BY <2>3, <2>4, <2>5, <2>6
<1>5. \A i, j \in 1 .. Len(s) : s[i] = s[j] => i = j
  BY <1>1, <1>4
<1>6. \A o \in Objects : mem2[o] = "dying" <=> Calling(o, stack) \/ Waiting(o, s)
  BY <1>2 DEF DyingIn
<1>7. \A o \in Objects : ~(Calling(o, stack) /\ Waiting(o, s))
  BY <1>2, <1>3 DEF DyingIn
<1>8. \A i, j \in 1 .. Len(stack) :
        Deallocs(stack[i]) /\ Deallocs(stack[j]) /\ stack[i].op = stack[j].op => i = j
  BY DEF DyingIn
<1>9. DyingIn(mem2, stack, s)
  BY <1>5, <1>6, <1>7, <1>8 DEF DyingIn
<1>10. QED
  BY <1>9 DEF s

LEMMA DyingTake ==
  ASSUME NEW stack, NEW lat \in Seq(Objects), NEW p \in Objects, NEW mem, NEW mem2,
         DyingIn(mem, stack, <<p>> \o lat), mem2[p] # "dying",
         \A o \in Objects : o # p => mem2[o] = mem[o]
  PROVE  DyingIn(mem2, stack, lat) /\ ~Waiting(p, lat) /\ mem[p] = "dying"
<1> DEFINE s == <<p>> \o lat
           n == Len(lat)
<1>1. n \in Nat /\ Len(s) = n + 1 /\ s[1] = p /\ \A i \in 1 .. n : s[i + 1] = lat[i]
  BY TrashIs
<1>2. \A o : Waiting(o, s) <=> o = p \/ Waiting(o, lat)
  BY TrashIs
<1>3. DyingIn(mem, stack, s)
  OBVIOUS
<1> HIDE DEF s
<1>4. \A i, j \in 1 .. n + 1 : s[i] = s[j] => i = j
  BY <1>1, <1>3 DEF DyingIn
<1>5. ASSUME NEW i \in 1 .. n, NEW j \in 1 .. n, lat[i] = lat[j]
      PROVE  i = j
  <2>1. i + 1 \in 1 .. n + 1 /\ j + 1 \in 1 .. n + 1 /\ s[i + 1] = s[j + 1]
    BY <1>1, <1>5
  <2>2. i + 1 = j + 1
    BY <1>4, <2>1
  <2>3. QED
    BY <1>1, <2>2
<1>6. ~Waiting(p, lat)
  <2> SUFFICES ASSUME NEW i \in 1 .. n, lat[i] = p PROVE FALSE
    BY DEF Waiting
  <2>1. i + 1 \in 1 .. n + 1 /\ 1 \in 1 .. n + 1 /\ s[i + 1] = s[1]
    BY <1>1
  <2>2. i + 1 = 1
    BY <1>4, <2>1
  <2>3. QED
    BY <1>1, <2>2
<1>7. ~Calling(p, stack) /\ mem[p] = "dying"
  BY <1>2, <1>3 DEF DyingIn
<1>8. \A o \in Objects : mem2[o] = "dying" <=> Calling(o, stack) \/ Waiting(o, lat)
  BY <1>2, <1>3, <1>6, <1>7 DEF DyingIn
<1>9. \A o \in Objects : ~(Calling(o, stack) /\ Waiting(o, lat))
  BY <1>2, <1>3 DEF DyingIn
<1>10. \A i, j \in 1 .. Len(stack) :
        Deallocs(stack[i]) /\ Deallocs(stack[j]) /\ stack[i].op = stack[j].op => i = j
  BY <1>3 DEF DyingIn
<1>11. QED
  BY <1>5, <1>6, <1>7, <1>8, <1>9, <1>10 DEF DyingIn

-----------------------------------------------------------------------------
(* The invariant of objects.                                               *)

LEMMA LifeInitInv == LifeInit => LifeInv
<1> SUFFICES ASSUME LifeInit PROVE LifeInv
  OBVIOUS
<1>1. /\ refcnt = [o \in Objects |-> 0] /\ memory = [o \in Objects |-> "unused"]
      /\ contents = [o \in Objects |-> {}] /\ held = {} /\ later = <<>>
      /\ nesting = 0 /\ calls = <<>>
      /\ obNext = [x \in Places |-> IF x = Refchain THEN Refchain ELSE Null]
      /\ obPrev = [x \in Places |-> IF x = Refchain THEN Refchain ELSE Null]
  BY DEF LifeInit
<1>2. LifeShape
  BY <1>1 DEF LifeShape
<1>3. Len(calls) = 0 /\ Len(later) = 0 /\ DOMAIN calls = {} /\ 1 .. Len(calls) = {}
      /\ 1 .. Len(later) = {}
  BY <1>1
<1>4. StackInv
  BY <1>1, <1>3, ObjectLifeAssumption DEF StackInv, StackOf
<1>5. DyingInv
  BY <1>1, <1>3 DEF DyingInv, DyingIn, Calling, Waiting
<1>6. RefInv
  <2>1. ASSUME NEW o \in Objects
        PROVE  Refs(o, memory, contents, later, calls, held) = 0
    <3>1. InAlive(o, memory, contents) = {}
      BY <1>1 DEF InAlive
    <3>2. InTrash(o, later, contents) = {}
      BY <1>1 DEF InTrash
    <3>3. InCalls(o, calls, contents) = {}
      BY <1>3 DEF InCalls
    <3>4. Cardinality({}) = 0
      BY FS_EmptySet
    <3>5. o \notin held
      BY <1>1
    <3>6. QED
      BY <3>1, <3>2, <3>3, <3>4, <3>5 DEF Refs
  <2>2. \A o \in Objects : refcnt[o] = 0 /\ memory[o] = "unused"
    BY <1>1
  <2>3. QED
    BY <2>1, <2>2 DEF RefInv
<1>7. RingInv
  <2>1. obNext \in [Places -> Places \cup {Null}] /\ obPrev \in [Places -> Places \cup {Null}]
    BY <1>1, PlacesAre
  <2>2. On(obNext) = {Refchain}
    BY <1>1, PlacesAre DEF On
  <2>3. obNext[Refchain] = Refchain /\ obPrev[Refchain] = Refchain
    BY <1>1, PlacesAre
  <2>4. \A x \in Places : obPrev[x] # Null <=> x \in {Refchain}
    BY <1>1, PlacesAre
  <2>5. RingOn(obNext, obPrev, {Refchain})
    BY <2>3, <2>4 DEF RingOn
  <2>6. Ring(obNext, obPrev)
    BY <2>2, <2>5, Zenon DEF Ring
  <2>7. \A o \in Objects : memory[o] = "alive" <=> obNext[o] # Null
    BY <1>1, PlacesAre
  <2>8. QED
    BY <2>1, <2>6, <2>7 DEF RingInv
<1>8. QED
  BY <1>2, <1>4, <1>5, <1>6, <1>7 DEF LifeInv

\* Py_DECREF(), with a reference less in the calls or in the program.
LEMMA DecRefKeeps ==
  ASSUME LifeShape, RingInv, NEW o \in Objects, NEW stack \in Seq(Frames), DecRef(o, stack),
         UNCHANGED <<contents, later, nesting>>, held' \in SUBSET Objects,
         refcnt[o] > 0,
         \A q \in Objects : refcnt[q] > 0 <=> memory[q] = "alive",
         \A q \in Objects : Refs(q, memory, contents, later, stack, held')
                              = refcnt[q] - (IF q = o THEN 1 ELSE 0),
         StackOf(stack, nesting, later), DyingIn(memory, stack, later),
         Len(stack) > 0 => stack[Len(stack)].at \in {"body", "called"}
  PROVE  LifeInv'
<1>1. /\ refcnt \in [Objects -> Nat] /\ nesting \in Nat /\ later \in Seq(Objects)
      /\ memory \in [Objects -> {"unused", "alive", "dying", "freed"}]
      /\ contents \in [Objects -> SUBSET Objects]
  BY DEF LifeShape
<1>2. refcnt' = [refcnt EXCEPT ![o] = @ - 1]
  BY DEF DecRef
<1>3. /\ refcnt' \in [Objects -> Nat]
      /\ \A q \in Objects : refcnt'[q] = refcnt[q] - (IF q = o THEN 1 ELSE 0)
  BY <1>1, <1>2
<1>4. memory[o] = "alive"
  OBVIOUS
<1>5. CASE refcnt[o] = 1
  <2>1. /\ Unchained(o) /\ memory' = [memory EXCEPT ![o] = "dying"]
        /\ calls' = Append(stack, Dealloc(o))
    BY <1>5 DEF DecRef
  <2>2. /\ memory' \in [Objects -> {"unused", "alive", "dying", "freed"}]
        /\ memory'[o] = "dying" /\ \A q \in Objects : q # o => memory'[q] = memory[q]
    BY <1>1, <2>1
  <2>3. Dealloc(o) \in Frames
    BY DEF Dealloc, Frames, Objects
  <2>4. calls' \in Seq(Frames)
    BY <2>1, <2>3
  <2>5. LifeShape'
    BY <1>1, <1>3, <2>2, <2>4 DEF LifeShape
  <2>6. StackInv'
    <3>1. StackOf(Append(stack, Dealloc(o)), nesting, later)
      BY <1>1, StackPush
    <3>2. QED
      BY <2>1, <3>1 DEF StackInv
  <2>7. DyingInv'
    <3>1. DyingIn(memory', Append(stack, Dealloc(o)), later)
      BY <1>4, <2>2, DyingPush
    <3>2. QED
      BY <2>1, <3>1 DEF DyingInv
  <2>8. RefInv'
    <3>1. ASSUME NEW q \in Objects
          PROVE  refcnt'[q] = Refs(q, memory', contents', later', calls', held')
      <4>1. Refs(q, memory', contents, later, Append(stack, Dealloc(o)), held')
              = Refs(q, memory, contents, later, stack, held')
        BY <1>4, <2>2, RefsDying
      <4>2. refcnt'[q] = Refs(q, memory, contents, later, stack, held')
        BY <1>3
      <4>3. QED
        BY <2>1, <4>1, <4>2
    <3>2. \A q \in Objects : refcnt'[q] > 0 <=> memory'[q] = "alive"
      BY <1>1, <1>3, <1>5, <2>2
    <3>3. QED
      BY <3>1, <3>2 DEF RefInv
  <2>9. RingInv'
    <3>1. o \in Places /\ o # Refchain /\ \A q \in Objects : q \in Places
      BY PlacesAre
    <3>2. /\ obNext \in [Places -> Places \cup {Null}] /\ obPrev \in [Places -> Places \cup {Null}]
          /\ Ring(obNext, obPrev) /\ \A q \in Objects : memory[q] = "alive" <=> obNext[q] # Null
      BY DEF RingInv
    <3>3. obNext[o] # Null
      BY <1>4, <3>2
    <3>4. obNext' = NextWithout(obNext, obPrev, o) /\ obPrev' = PrevWithout(obNext, obPrev, o)
      BY <2>1 DEF Unchained, NextWithout, PrevWithout
    <3>5. /\ obNext' \in [Places -> Places \cup {Null}] /\ obPrev' \in [Places -> Places \cup {Null}]
          /\ Ring(obNext', obPrev')
          /\ \A y \in Places : obNext'[y] # Null <=> obNext[y] # Null /\ y # o
      BY <3>1, <3>2, <3>3, <3>4, RingRemove
    <3>6. \A q \in Objects : memory'[q] = "alive" <=> obNext'[q] # Null
      BY <2>2, <3>1, <3>2, <3>5
    <3>7. QED
      BY <3>5, <3>6 DEF RingInv
  <2>10. QED
    BY <2>5, <2>6, <2>7, <2>8, <2>9 DEF LifeInv
<1>6. CASE refcnt[o] # 1
  <2>1. calls' = stack /\ memory' = memory /\ obNext' = obNext /\ obPrev' = obPrev
        /\ contents' = contents /\ later' = later /\ nesting' = nesting
    BY <1>6 DEF DecRef, chain
  <2>2. LifeShape'
    BY <1>1, <1>3, <2>1 DEF LifeShape
  <2>3. StackInv' /\ DyingInv'
    BY <2>1 DEF StackInv, DyingInv
  <2>4. RefInv'
    <3>1. ASSUME NEW q \in Objects
          PROVE  refcnt'[q] = Refs(q, memory', contents', later', calls', held')
      <4>1. refcnt'[q] = Refs(q, memory, contents, later, stack, held')
        BY <1>3
      <4>2. QED
        BY <2>1, <4>1, Zenon
    <3>2. ASSUME NEW q \in Objects
          PROVE  refcnt'[q] > 0 <=> memory'[q] = "alive"
      <4>1. refcnt'[q] > 0 <=> refcnt[q] > 0
        <5>1. refcnt[q] \in Nat /\ refcnt[o] \in Nat
          BY <1>1
        <5>2. CASE q = o
          BY <1>3, <1>6, <5>1, <5>2
        <5>3. CASE q # o
          BY <1>3, <5>1, <5>3
        <5>4. QED
          BY <5>2, <5>3
      <4>2. QED
        BY <2>1, <4>1
    <3>3. QED
      BY <3>1, <3>2 DEF RefInv
  <2>5. RingInv'
    BY <2>1 DEF RingInv, chain
  <2>6. QED
    BY <2>2, <2>3, <2>4, <2>5 DEF LifeInv
<1>7. QED
  BY <1>5, <1>6

LEMMA ReleaseKeeps ==
  ASSUME LifeInv, NEW o \in Objects, Release(o)
  PROVE  LifeInv'
<1>1. LifeShape /\ StackInv /\ DyingInv /\ RefInv /\ RingInv
  BY DEF LifeInv
<1>2. /\ calls = <<>> /\ o \in held /\ held' = held \ {o} /\ DecRef(o, calls)
      /\ UNCHANGED <<contents, later, nesting>>
  BY DEF Release
<1>3. held \in SUBSET Objects /\ refcnt \in [Objects -> Nat] /\ calls \in Seq(Frames)
      /\ nesting \in Nat
  BY <1>1 DEF LifeShape
<1>4. ASSUME NEW q \in Objects
      PROVE  Refs(q, memory, contents, later, calls, held')
               = refcnt[q] - (IF q = o THEN 1 ELSE 0)
  <2> DEFINE rest == Cardinality(InAlive(q, memory, contents))
                     + Cardinality(InTrash(q, later, contents))
                     + Cardinality(InCalls(q, calls, contents))
  <2>1. rest \in Nat
    BY <1>3, AliveFinite, TrashFinite, CallsFinite
  <2>2. Refs(q, memory, contents, later, calls, held) = rest + (IF q \in held THEN 1 ELSE 0)
        /\ Refs(q, memory, contents, later, calls, held') = rest + (IF q \in held' THEN 1 ELSE 0)
    BY DEF Refs
  <2>3. refcnt[q] = Refs(q, memory, contents, later, calls, held)
    BY <1>1 DEF RefInv
  <2> HIDE DEF rest
  <2>4. CASE q = o
    <3>1. q \in held /\ q \notin held'
      BY <1>2, <2>4
    <3>2. QED
      BY <2>1, <2>2, <2>3, <2>4, <3>1
  <2>5. CASE q # o
    <3>1. q \in held <=> q \in held'
      BY <1>2, <2>5
    <3>2. QED
      BY <2>1, <2>2, <2>3, <2>5, <3>1
  <2>6. QED
    BY <2>4, <2>5
<1>5. refcnt[o] > 0
  <2> DEFINE rest == Cardinality(InAlive(o, memory, contents))
                     + Cardinality(InTrash(o, later, contents))
                     + Cardinality(InCalls(o, calls, contents))
  <2>1. rest \in Nat
    BY <1>3, AliveFinite, TrashFinite, CallsFinite
  <2>2. refcnt[o] = rest + 1
    BY <1>1, <1>2 DEF RefInv, Refs
  <2> HIDE DEF rest
  <2>3. QED
    BY <2>1, <2>2
<1>6. \A q \in Objects : refcnt[q] > 0 <=> memory[q] = "alive"
  BY <1>1 DEF RefInv
<1>7. StackOf(calls, nesting, later) /\ DyingIn(memory, calls, later)
  BY <1>1 DEF StackInv, DyingInv
<1>8. held' \in SUBSET Objects /\ ~(Len(calls) > 0)
  BY <1>2, <1>3
<1>9. QED
  BY <1>1, <1>2, <1>3, <1>4, <1>5, <1>6, <1>7, <1>8, DecRefKeeps

-----------------------------------------------------------------------------
(* The steps of the calls that deallocate.                                 *)

\* The innermost call goes on, in another way.
LEMMA StackLast ==
  ASSUME NEW stack \in Seq(Frames), NEW f \in Frames, NEW g \in Frames,
         NEW nest, NEW nest2, NEW lat, NEW lat2,
         StackOf(Append(stack, f), nest, lat),
         Deallocs(g) => g.op \in Objects,
         g.at # "body" => g.todo = {},
         g.at \in {"chain", "called"} => Len(stack) = 0,
         nest2 = IF g.at \in {"begin", "chain"} THEN Len(stack) ELSE Len(stack) + 1,
         nest2 <= UnwindLevel
  PROVE  StackOf(Append(stack, g), nest2, lat2)
<1> DEFINE n == Len(stack)
           s == Append(stack, f)
           t == Append(stack, g)
<1>1. /\ n \in Nat /\ Len(s) = n + 1 /\ Len(t) = n + 1 /\ s[n + 1] = f /\ t[n + 1] = g
      /\ \A i \in 1 .. n : s[i] = stack[i] /\ t[i] = stack[i]
      /\ \A i \in 1 .. n + 1 : i \in 1 .. n \/ i = n + 1
      /\ \A i \in 1 .. n : i \in 1 .. n + 1 /\ i < n + 1
  BY AppendIs
<1> HIDE DEF n, s, t
<1>2. ASSUME NEW i \in 1 .. n + 1
      PROVE  /\ Deallocs(t[i]) => t[i].op \in Objects
             /\ t[i].at # "body" => t[i].todo = {}
             /\ t[i].at \in {"chain", "called"} => i = 1
             /\ i < n + 1 => t[i].at \in {"body", "called"}
  <2>1. CASE i \in 1 .. n
    <3>1. t[i] = s[i] /\ i \in 1 .. n + 1 /\ i < n + 1
      BY <1>1, <2>1
    <3>2. /\ Deallocs(s[i]) => s[i].op \in Objects
          /\ s[i].at # "body" => s[i].todo = {}
          /\ s[i].at \in {"chain", "called"} => i = 1
          /\ i < n + 1 => s[i].at \in {"body", "called"}
      BY <1>1, <3>1 DEF StackOf, s
    <3>3. QED
      BY <3>1, <3>2
  <2>2. CASE i = n + 1
    BY <1>1, <2>2 DEF n
  <2>3. QED
    BY <1>1, <2>1, <2>2
<1>3. /\ ~(Len(t) = 0) /\ t[Len(t)] = g /\ Len(t) - 1 = n /\ Len(t) = n + 1
  BY <1>1
<1>4. nest2 = IF t[Len(t)].at \in {"begin", "chain"} THEN Len(t) - 1 ELSE Len(t)
  BY <1>3 DEF n
<1>5. StackOf(t, nest2, lat2)
  BY <1>2, <1>3, <1>4 DEF StackOf
<1>6. QED
  BY <1>5 DEF t

\* The innermost call returns.
LEMMA StackPop ==
  ASSUME NEW stack \in Seq(Frames), NEW f \in Frames, NEW nest, NEW lat, NEW lat2,
         StackOf(Append(stack, f), nest, lat),
         Len(stack) = 0 => Len(lat2) = 0, Len(stack) <= UnwindLevel
  PROVE  StackOf(stack, Len(stack), lat2)
<1> DEFINE n == Len(stack)
           s == Append(stack, f)
<1>1. /\ n \in Nat /\ Len(s) = n + 1
      /\ \A i \in 1 .. n : s[i] = stack[i] /\ i \in 1 .. n + 1 /\ i < n + 1
      /\ n > 0 => n \in 1 .. n
  BY AppendIs
<1> HIDE DEF n, s
<1>2. ASSUME NEW i \in 1 .. n
      PROVE  /\ Deallocs(stack[i]) => stack[i].op \in Objects
             /\ stack[i].at # "body" => stack[i].todo = {}
             /\ stack[i].at \in {"chain", "called"} => i = 1
             /\ stack[i].at \in {"body", "called"}
  <2>1. stack[i] = s[i] /\ i \in 1 .. n + 1 /\ i < n + 1
    BY <1>1
  <2>2. /\ Deallocs(s[i]) => s[i].op \in Objects
        /\ s[i].at # "body" => s[i].todo = {}
        /\ s[i].at \in {"chain", "called"} => i = 1
        /\ i < n + 1 => s[i].at \in {"body", "called"}
    BY <1>1, <2>1 DEF StackOf, s
  <2>3. QED
    BY <2>1, <2>2
<1>3. n > 0 => stack[n].at \in {"body", "called"}
  BY <1>1, <1>2
<1>4. QED
  BY <1>1, <1>2, <1>3 DEF StackOf, n

\* The innermost call, as StackInv has it.
LEMMA TopHas ==
  ASSUME LifeShape, StackInv, calls # <<>>
  PROVE  /\ Deallocs(Top) => Top.op \in Objects
         /\ Top.at # "body" => Top.todo = {}
         /\ Top.at \in {"chain", "called"} => Len(calls) = 1
         /\ nesting = IF Top.at \in {"begin", "chain"} THEN Len(calls) - 1 ELSE Len(calls)
         /\ nesting <= UnwindLevel
         /\ StackOf(Append(Returned, Top), nesting, later)
<1>1. /\ Len(calls) \in Nat /\ Len(calls) > 0 /\ Top = calls[Len(calls)]
      /\ calls = Append(Returned, Top)
  BY TopIs
<1>2. Len(calls) \in 1 .. Len(calls)
  BY <1>1
<1>3. StackOf(calls, nesting, later)
  BY DEF StackInv
<1>4. QED
  BY <1>1, <1>2, <1>3 DEF StackOf

\* What the steps that count no reference have to keep.
LEMMA StepKeeps ==
  ASSUME LifeInv, UNCHANGED <<refcnt, contents, held, chain>>,
         memory' \in [Objects -> {"unused", "alive", "dying", "freed"}],
         later' \in Seq(Objects), calls' \in Seq(Frames), nesting' \in Nat,
         \A q \in Objects : memory'[q] = "alive" <=> memory[q] = "alive",
         StackOf(calls', nesting', later'), DyingIn(memory', calls', later'),
         \A q \in Objects :
           Cardinality(InTrash(q, later', contents)) + Cardinality(InCalls(q, calls', contents))
             = Cardinality(InTrash(q, later, contents)) + Cardinality(InCalls(q, calls, contents))
  PROVE  LifeInv'
<1>1. LifeShape /\ RefInv /\ RingInv
  BY DEF LifeInv
<1>2. /\ refcnt' = refcnt /\ contents' = contents /\ held' = held
      /\ obNext' = obNext /\ obPrev' = obPrev
  BY DEF chain
<1>3. LifeShape'
  BY <1>1, <1>2 DEF LifeShape
<1>4. StackInv' /\ DyingInv'
  BY DEF StackInv, DyingInv
<1>5. ASSUME NEW q \in Objects
      PROVE  refcnt'[q] = Refs(q, memory', contents', later', calls', held')
  <2> DEFINE a == Cardinality(InAlive(q, memory, contents))
             t == Cardinality(InTrash(q, later, contents))
             c == Cardinality(InCalls(q, calls, contents))
             t2 == Cardinality(InTrash(q, later', contents))
             c2 == Cardinality(InCalls(q, calls', contents))
             h == IF q \in held THEN 1 ELSE 0
  <2>1. a \in Nat /\ t \in Nat /\ c \in Nat /\ t2 \in Nat /\ c2 \in Nat /\ h \in Nat
    <3>1. calls \in Seq(Frames)
      BY <1>1 DEF LifeShape
    <3>2. QED
      BY <3>1, AliveFinite, TrashFinite, CallsFinite
  <2>2. t2 + c2 = t + c
    OBVIOUS
  <2>3. InAlive(q, memory', contents) = InAlive(q, memory, contents)
    BY DEF InAlive
  <2>4. refcnt[q] = a + t + c + h
    BY <1>1 DEF RefInv, Refs
  <2>5. Refs(q, memory', contents, later', calls', held) = a + t2 + c2 + h
    BY <2>3 DEF Refs
  <2> HIDE DEF a, t, c, t2, c2, h
  <2>6. a + t2 + c2 + h = a + t + c + h
    BY <2>1, <2>2
  <2>7. refcnt'[q] = refcnt[q]
    BY <1>2
  <2>8. Refs(q, memory', contents', later', calls', held')
          = Refs(q, memory', contents, later', calls', held)
    BY <1>2, Zenon
  <2>9. QED
    BY <2>4, <2>5, <2>6, <2>7, <2>8, Zenon
<1>6. RefInv'
  <2>1. \A q \in Objects : refcnt'[q] > 0 <=> memory'[q] = "alive"
    BY <1>1, <1>2 DEF RefInv
  <2>2. QED
    BY <1>5, <2>1 DEF RefInv
<1>7. RingInv'
  BY <1>1, <1>2 DEF RingInv
<1>8. QED
  BY <1>3, <1>4, <1>6, <1>7 DEF LifeInv

-----------------------------------------------------------------------------
\* What becomes of the innermost call.
LEMMA FrameIs ==
  ASSUME NEW f \in Frames, NEW todo
  PROVE  /\ [f EXCEPT !.at = "body", !.todo = todo] = [op |-> f.op, at |-> "body", todo |-> todo]
         /\ [f EXCEPT !.todo = todo] = [op |-> f.op, at |-> f.at, todo |-> todo]
         /\ [f EXCEPT !.at = "called"] = [op |-> f.op, at |-> "called", todo |-> f.todo]
         /\ [f EXCEPT !.at = "chain"] = [op |-> f.op, at |-> "chain", todo |-> f.todo]
<1>1. f = [op |-> f.op, at |-> f.at, todo |-> f.todo]
  BY DEF Frames
<1> DEFINE a == f.op
           b == f.at
           c == f.todo
<1>2. f = [op |-> a, at |-> b, todo |-> c]
  BY <1>1
<1> HIDE DEF a, b, c
<1>3. [f EXCEPT !.todo = todo] = [op |-> a, at |-> b, todo |-> todo]
  BY <1>2
<1>4. [f EXCEPT !.at = "called"] = [op |-> a, at |-> "called", todo |-> c]
  BY <1>2
<1>5. [f EXCEPT !.at = "chain"] = [op |-> a, at |-> "chain", todo |-> c]
  BY <1>2
<1>6. [f EXCEPT !.at = "body", !.todo = todo] = [op |-> a, at |-> "body", todo |-> todo]
  <2> DEFINE m == [f EXCEPT !.at = "body"]
  <2>1. m = [op |-> a, at |-> "body", todo |-> c]
    BY <1>2
  <2> HIDE DEF m
  <2>2. [m EXCEPT !.todo = todo] = [op |-> a, at |-> "body", todo |-> todo]
    BY <2>1
  <2>3. QED
    BY <2>2 DEF m
<1>7. QED
  BY <1>3, <1>4, <1>5, <1>6, Zenon DEF a, b, c

\* Py_TRASHCAN_SAFE_BEGIN
LEMMA BeginKeeps ==
  ASSUME LifeInv, BeginDealloc
  PROVE  LifeInv'
<1> DEFINE p == Top.op
           g == [op |-> p, at |-> "body", todo |-> contents[p]]
<1>1. LifeShape /\ StackInv /\ DyingInv /\ RefInv /\ RingInv
  BY DEF LifeInv
<1>2. calls # <<>> /\ Top.at = "begin" /\ UNCHANGED <<refcnt, memory, contents, held, chain>>
  BY DEF BeginDealloc, InCall
<1>3. /\ memory \in [Objects -> {"unused", "alive", "dying", "freed"}]
      /\ contents \in [Objects -> SUBSET Objects] /\ later \in Seq(Objects) /\ nesting \in Nat
  BY <1>1 DEF LifeShape
<1>4. /\ Top \in Frames /\ Returned \in Seq(Frames) /\ calls = Append(Returned, Top)
      /\ Len(calls) \in Nat /\ Len(Returned) = Len(calls) - 1
      /\ \A f : Now(f) = Append(Returned, f)
  BY <1>1, <1>2, TopIs
<1>5. /\ p \in Objects /\ Top.todo = {} /\ nesting = Len(Returned) /\ nesting <= UnwindLevel
      /\ StackOf(Append(Returned, Top), nesting, later)
  <2>1. Deallocs(Top) /\ Top.at # "body" /\ Top.at \in {"begin", "chain"}
    BY <1>2 DEF Deallocs
  <2>2. QED
    BY <1>1, <1>2, <1>4, <2>1, TopHas
<1>6. DyingIn(memory, Append(Returned, Top), later)
  BY <1>1, <1>4 DEF DyingInv
<1>7. UnwindLevel \in Nat /\ UnwindLevel >= 2
  BY ObjectLifeAssumption
<1>8. \A q \in Objects : memory'[q] = "alive" <=> memory[q] = "alive"
  BY <1>2
<1>9. CASE nesting < UnwindLevel
  <2>1. nesting' = nesting + 1 /\ later' = later
    BY <1>9 DEF BeginDealloc
  <2>0. calls' = Now([Top EXCEPT !.at = "body", !.todo = contents[Top.op]])
    BY <1>9 DEF BeginDealloc
  <2>2. g = [Top EXCEPT !.at = "body", !.todo = contents[Top.op]]
    BY <1>4, FrameIs, Zenon
  <2>3. g \in Frames
    BY <1>3, <1>4, <1>5 DEF Frames
  <2>4. calls' = Append(Returned, g)
    BY <1>4, <2>0, <2>2
  <2>5. g.at = "body" /\ g.op = p /\ g.todo = contents[p]
    OBVIOUS
  <2> HIDE DEF g
  <2>6. StackOf(Append(Returned, g), nesting + 1, later)
    <3>1. Deallocs(g) => g.op \in Objects
      BY <1>5, <2>5
    <3>2. nesting + 1 <= UnwindLevel
      BY <1>3, <1>7, <1>9
    <3>3. /\ g.at # "body" => g.todo = {}
          /\ g.at \in {"chain", "called"} => Len(Returned) = 0
          /\ nesting + 1 = IF g.at \in {"begin", "chain"} THEN Len(Returned) ELSE Len(Returned) + 1
      BY <1>5, <2>5
    <3>4. QED
      BY <1>4, <1>5, <2>3, <3>1, <3>2, <3>3, StackLast
  <2>7. DyingIn(memory, Append(Returned, g), later)
    <3>1. Deallocs(Top) <=> Deallocs(g)
      BY <1>2, <2>5 DEF Deallocs
    <3>2. Top.op = g.op
      BY <2>5
    <3>3. QED
      BY <1>4, <1>6, <2>3, <3>1, <3>2, DyingSame
  <2>8. ASSUME NEW q \in Objects
        PROVE  Cardinality(InTrash(q, later', contents)) + Cardinality(InCalls(q, calls', contents))
                 = Cardinality(InTrash(q, later, contents)) + Cardinality(InCalls(q, calls, contents))
    <3>1. Adds(q, g, contents) = Adds(q, Top, contents)
      BY <1>2, <1>5, <2>5 DEF Adds
    <3>2. Cardinality(InCalls(q, Append(Returned, g), contents))
            = Cardinality(InCalls(q, Append(Returned, Top), contents))
      BY <1>4, <2>3, <3>1, CallsAppend
    <3>3. QED
      BY <1>4, <2>1, <2>4, <3>2, Zenon
  <2>9. calls' \in Seq(Frames) /\ nesting' \in Nat
    BY <1>3, <1>4, <2>1, <2>3, <2>4
  <2>10. StackOf(calls', nesting', later') /\ DyingIn(memory', calls', later')
    BY <1>2, <2>1, <2>4, <2>6, <2>7
  <2>11. QED
    BY <1>2, <1>3, <1>8, <2>1, <2>8, <2>9, <2>10, StepKeeps
<1>10. CASE ~(nesting < UnwindLevel)
  <2>1. nesting' = nesting /\ later' = <<p>> \o later /\ calls' = Returned
    BY <1>10 DEF BeginDealloc, Deposited
  <2>2. nesting = UnwindLevel
    BY <1>3, <1>5, <1>7, <1>10
  <2>3. StackOf(Returned, Len(Returned), later')
    BY <1>4, <1>5, <1>7, <2>2, StackPop
  <2> DEFINE mem == [memory EXCEPT ![p] = "freed"]
  <2>4. mem[p] = "freed" /\ \A q \in Objects : q # p => mem[q] = memory[q]
    BY <1>3, <1>5
  <2> HIDE DEF mem
  <2>5. Deallocs(Top)
    BY <1>2 DEF Deallocs
  <2>6. DyingIn(mem, Returned, later) /\ ~Waiting(p, later) /\ memory[p] = "dying"
    BY <1>4, <1>5, <1>6, <2>4, <2>5, DyingPop
  <2>7. DyingIn(memory, Returned, <<p>> \o later)
    <3>1. mem[p] # "dying" /\ \A q \in Objects : q # p => memory[q] = mem[q]
      BY <2>4
    <3>2. QED
      BY <1>3, <1>5, <2>6, <3>1, DyingDeposit
  <2>8. /\ later' \in Seq(Objects) /\ p \notin ToSet(later)
        /\ ToSet(later') = ToSet(later) \cup {p}
    BY <1>3, <1>5, <2>1, <2>6, TrashIs
  <2>9. ASSUME NEW q \in Objects
        PROVE  Cardinality(InTrash(q, later', contents)) + Cardinality(InCalls(q, calls', contents))
                 = Cardinality(InTrash(q, later, contents)) + Cardinality(InCalls(q, calls, contents))
    <3> DEFINE d == IF q \in contents[p] THEN 1 ELSE 0
               t == Cardinality(InTrash(q, later, contents))
               c == Cardinality(InCalls(q, Returned, contents))
    <3>1. Adds(q, Top, contents) = d
      BY <1>2, <1>5 DEF Adds
    <3>2. Cardinality(InCalls(q, calls, contents)) = c + d
      BY <1>4, <3>1, CallsAppend
    <3>3. Cardinality(InTrash(q, later', contents)) = t + d
      BY <1>5, <2>8, TrashMore
    <3>4. Cardinality(InCalls(q, calls', contents)) = c
      BY <2>1
    <3>5. t \in Nat /\ c \in Nat /\ d \in Nat
      BY <1>4, TrashFinite, CallsFinite
    <3> HIDE DEF d, t, c
    <3>6. (t + d) + c = t + (c + d)
      BY <3>5
    <3>7. QED
      BY <3>2, <3>3, <3>4, <3>6 DEF t
  <2>10. /\ StackOf(calls', nesting', later')
         /\ DyingIn(memory', calls', later')
    BY <1>2, <1>5, <2>1, <2>3, <2>7
  <2>11. calls' \in Seq(Frames) /\ nesting' \in Nat
    BY <1>3, <1>4, <2>1
  <2>12. QED
    BY <1>2, <1>3, <1>8, <2>8, <2>9, <2>10, <2>11, StepKeeps
<1>11. QED
  BY <1>9, <1>10

\* tp_dealloc() releases an object.
LEMMA ReleaseContentsKeeps ==
  ASSUME LifeInv, ReleaseContents
  PROVE  LifeInv'
<1>1. LifeShape /\ StackInv /\ DyingInv /\ RefInv /\ RingInv
  BY DEF LifeInv
<1>2. calls # <<>> /\ Top.at = "body" /\ UNCHANGED <<contents, held, later, nesting>>
  BY DEF ReleaseContents, InCall
<1>3. PICK o \in Top.todo : DecRef(o, Now([Top EXCEPT !.todo = @ \ {o}]))
  BY DEF ReleaseContents
<1> DEFINE g == [op |-> Top.op, at |-> "body", todo |-> Top.todo \ {o}]
<1>4. /\ held \in SUBSET Objects /\ refcnt \in [Objects -> Nat] /\ nesting \in Nat
  BY <1>1 DEF LifeShape
<1>5. /\ Top \in Frames /\ Returned \in Seq(Frames) /\ calls = Append(Returned, Top)
      /\ Len(calls) \in Nat /\ Len(Returned) = Len(calls) - 1
      /\ \A f : Now(f) = Append(Returned, f)
  BY <1>1, <1>2, TopIs
<1>6. o \in Objects /\ g \in Frames
  BY <1>2, <1>5 DEF Frames
<1>7. g = [Top EXCEPT !.todo = @ \ {o}]
  <2>1. [Top EXCEPT !.todo = Top.todo \ {o}] = [op |-> Top.op, at |-> Top.at, todo |-> Top.todo \ {o}]
    BY <1>5, FrameIs, Zenon
  <2>2. QED
    BY <1>2, <2>1
<1>8. DecRef(o, Append(Returned, g))
  BY <1>3, <1>5, <1>7
<1>9. g.at = "body" /\ g.op = Top.op /\ g.todo = Top.todo \ {o}
  OBVIOUS
<1> HIDE DEF g
<1> DEFINE stack == Append(Returned, g)
<1>10. /\ stack \in Seq(Frames) /\ Len(stack) = Len(calls) /\ stack[Len(stack)] = g
  BY <1>5, <1>6, AppendIs
<1>11. StackOf(stack, nesting, later)
  <2>1. /\ Deallocs(Top) => Top.op \in Objects
        /\ nesting = IF Top.at \in {"begin", "chain"} THEN Len(calls) - 1 ELSE Len(calls)
        /\ nesting <= UnwindLevel
        /\ StackOf(Append(Returned, Top), nesting, later)
    BY <1>1, <1>2, TopHas
  <2>2. /\ Deallocs(g) => g.op \in Objects
        /\ g.at # "body" => g.todo = {}
        /\ g.at \in {"chain", "called"} => Len(Returned) = 0
    BY <1>2, <1>9, <2>1 DEF Deallocs
  <2>3. nesting = IF g.at \in {"begin", "chain"} THEN Len(Returned) ELSE Len(Returned) + 1
    BY <1>2, <1>5, <1>9, <2>1
  <2>4. QED
    BY <1>5, <1>6, <2>1, <2>2, <2>3, StackLast
<1>12. DyingIn(memory, stack, later)
  <2>1. DyingIn(memory, Append(Returned, Top), later)
    BY <1>1, <1>5 DEF DyingInv
  <2>2. (Deallocs(Top) <=> Deallocs(g)) /\ Top.op = g.op
    BY <1>2, <1>9 DEF Deallocs
  <2>3. QED
    BY <1>5, <1>6, <2>1, <2>2, DyingSame
<1>13. ASSUME NEW q \in Objects
       PROVE  /\ Refs(q, memory, contents, later, stack, held)
                   = refcnt[q] - (IF q = o THEN 1 ELSE 0)
              /\ q = o => refcnt[q] > 0
  <2> DEFINE a == Cardinality(InAlive(q, memory, contents))
             t == Cardinality(InTrash(q, later, contents))
             c == Cardinality(InCalls(q, Returned, contents))
             h == IF q \in held THEN 1 ELSE 0
             d == Adds(q, Top, contents)
             e == Adds(q, g, contents)
  <2>1. a \in Nat /\ t \in Nat /\ c \in Nat /\ h \in Nat
    BY <1>5, AliveFinite, TrashFinite, CallsFinite
  <2>2. Cardinality(InCalls(q, calls, contents)) = c + d
        /\ Cardinality(InCalls(q, stack, contents)) = c + e
    BY <1>5, <1>6, CallsAppend
  <2>3. d \in Nat /\ e \in Nat /\ e = d - (IF q = o THEN 1 ELSE 0) /\ (q = o => d = 1)
    BY <1>2, <1>3, <1>9 DEF Adds
  <2>4. refcnt[q] = a + t + (c + d) + h
    BY <1>1, <2>2 DEF RefInv, Refs
  <2>5. Refs(q, memory, contents, later, stack, held) = a + t + (c + e) + h
    BY <2>2 DEF Refs
  <2> HIDE DEF a, t, c, h, d, e
  <2>6. QED
    BY <2>1, <2>3, <2>4, <2>5
<1>14. \A q \in Objects : refcnt[q] > 0 <=> memory[q] = "alive"
  BY <1>1 DEF RefInv
<1>15. stack[Len(stack)].at \in {"body", "called"}
  BY <1>9, <1>10
<1>16. held' = held /\ held' \in SUBSET Objects /\ refcnt[o] > 0
  BY <1>2, <1>4, <1>6, <1>13
<1>17. \A q \in Objects : Refs(q, memory, contents, later, stack, held')
                            = refcnt[q] - (IF q = o THEN 1 ELSE 0)
  BY <1>13, <1>16
<1>18. DecRef(o, stack)
  BY <1>8
<1> HIDE DEF stack
<1>19. QED
  BY <1>1, <1>2, <1>6, <1>10, <1>11, <1>12, <1>14, <1>15, <1>16, <1>17, <1>18, DecRefKeeps

\* The object is freed, and Py_TRASHCAN_SAFE_END.
LEMMA EndKeeps ==
  ASSUME LifeInv, EndDealloc
  PROVE  LifeInv'
<1> DEFINE p == Top.op
           g == [op |-> 0, at |-> "chain", todo |-> {}]
<1>1. LifeShape /\ StackInv /\ DyingInv /\ RefInv /\ RingInv
  BY DEF LifeInv
<1>2. /\ calls # <<>> /\ Top.at = "body" /\ Top.todo = {}
      /\ UNCHANGED <<refcnt, contents, held, chain, later>>
  BY DEF EndDealloc, InCall
<1>3. /\ memory \in [Objects -> {"unused", "alive", "dying", "freed"}]
      /\ later \in Seq(Objects) /\ nesting \in Nat
  BY <1>1 DEF LifeShape
<1>4. /\ Top \in Frames /\ Returned \in Seq(Frames) /\ calls = Append(Returned, Top)
      /\ Len(calls) \in Nat /\ Len(Returned) = Len(calls) - 1
      /\ \A f : Now(f) = Append(Returned, f)
  BY <1>1, <1>2, TopIs
<1>5. /\ p \in Objects /\ nesting = Len(calls) /\ nesting <= UnwindLevel
      /\ StackOf(Append(Returned, Top), nesting, later)
  <2>1. Deallocs(Top) /\ Top.at \notin {"begin", "chain"}
    BY <1>2 DEF Deallocs
  <2>2. QED
    BY <1>1, <1>2, <2>1, TopHas
<1>6. UnwindLevel \in Nat /\ UnwindLevel >= 2 /\ Len(Returned) \in Nat
  BY <1>4, ObjectLifeAssumption
<1>7. nesting' = nesting - 1 /\ nesting' = Len(Returned) /\ nesting' \in Nat
  BY <1>4, <1>5, <1>6 DEF EndDealloc
<1>8. /\ memory' \in [Objects -> {"unused", "alive", "dying", "freed"}]
      /\ memory'[p] = "freed" /\ \A q \in Objects : q # p => memory'[q] = memory[q]
  <2>1. memory' = [memory EXCEPT ![p] = "freed"]
    BY DEF EndDealloc
  <2> HIDE DEF p
  <2>2. QED
    BY <1>3, <1>5, <2>1
<1>9. DyingIn(memory', Returned, later) /\ memory[p] = "dying"
  <2>1. DyingIn(memory, Append(Returned, Top), later) /\ Deallocs(Top)
    BY <1>1, <1>2, <1>4 DEF DyingInv, Deallocs
  <2>2. memory'[p] # "dying"
    BY <1>8
  <2>3. QED
    BY <1>4, <1>5, <1>8, <2>1, <2>2, DyingPop
<1>10. \A q \in Objects : memory'[q] = "alive" <=> memory[q] = "alive"
  BY <1>8, <1>9
<1>11. later' = later
  BY <1>2
<1>12. ASSUME NEW q \in Objects
       PROVE  Cardinality(InCalls(q, Returned, contents))
                = Cardinality(InCalls(q, calls, contents))
  <2>1. Adds(q, Top, contents) = 0
    BY <1>2 DEF Adds
  <2>2. Cardinality(InCalls(q, calls, contents)) = Cardinality(InCalls(q, Returned, contents)) + 0
    BY <1>4, <2>1, CallsAppend
  <2>3. QED
    BY <1>4, <2>2, CallsFinite
<1>13. CASE later # <<>> /\ nesting' <= 0
  <2>1. calls' = Append(Returned, g)
    BY <1>4, <1>13 DEF EndDealloc
  <2>2. g \in Frames
    BY ObjectLifeAssumption DEF Frames
  <2>3. g.at = "chain" /\ g.todo = {}
    OBVIOUS
  <2> HIDE DEF g
  <2>4. StackOf(Append(Returned, g), nesting', later)
    <3>1. Len(Returned) = 0
      BY <1>6, <1>7, <1>13
    <3>2. nesting' = IF g.at \in {"begin", "chain"} THEN Len(Returned) ELSE Len(Returned) + 1
      BY <1>7, <2>3
    <3>3. nesting' <= UnwindLevel
      BY <1>6, <1>7, <3>1
    <3>4. Deallocs(g) => g.op \in Objects
      BY <2>3 DEF Deallocs
    <3>5. QED
      BY <1>4, <1>5, <2>2, <2>3, <3>1, <3>2, <3>3, <3>4, StackLast
  <2>5. DyingIn(memory', Append(Returned, g), later)
    <3>1. ~Deallocs(g)
      BY <2>3 DEF Deallocs
    <3>2. QED
      BY <1>4, <1>9, <2>2, <3>1, DyingSkip
  <2>6. ASSUME NEW q \in Objects
        PROVE  Cardinality(InTrash(q, later', contents)) + Cardinality(InCalls(q, calls', contents))
                 = Cardinality(InTrash(q, later, contents)) + Cardinality(InCalls(q, calls, contents))
    <3>1. Adds(q, g, contents) = 0
      BY <2>3 DEF Adds
    <3>2. Cardinality(InCalls(q, calls', contents))
            = Cardinality(InCalls(q, Returned, contents)) + 0
      BY <1>4, <2>1, <2>2, <3>1, CallsAppend
    <3>3. Cardinality(InCalls(q, calls', contents)) = Cardinality(InCalls(q, calls, contents))
      BY <1>4, <1>12, <3>2, CallsFinite
    <3>4. QED
      BY <1>11, <3>3, Zenon
  <2>7. calls' \in Seq(Frames)
    BY <1>4, <2>1, <2>2, AppendIs
  <2>8. StackOf(calls', nesting', later') /\ DyingIn(memory', calls', later')
    BY <1>11, <2>1, <2>4, <2>5, Zenon
  <2>9. QED
    BY <1>2, <1>3, <1>7, <1>8, <1>10, <1>11, <2>6, <2>7, <2>8, StepKeeps
<1>14. CASE ~(later # <<>> /\ nesting' <= 0)
  <2>1. calls' = Returned
    BY <1>14 DEF EndDealloc
  <2>2. Len(Returned) = 0 => Len(later) = 0
    BY <1>7, <1>14
  <2>3. StackOf(Returned, Len(Returned), later)
    <3>1. Len(Returned) <= UnwindLevel
      BY <1>4, <1>5, <1>6
    <3>2. QED
      BY <1>4, <1>5, <2>2, <3>1, StackPop
  <2>4. ASSUME NEW q \in Objects
        PROVE  Cardinality(InTrash(q, later', contents)) + Cardinality(InCalls(q, calls', contents))
                 = Cardinality(InTrash(q, later, contents)) + Cardinality(InCalls(q, calls, contents))
    BY <1>11, <1>12, <2>1, Zenon
  <2>5. StackOf(calls', nesting', later') /\ DyingIn(memory', calls', later')
    BY <1>7, <1>9, <1>11, <2>1, <2>3, Zenon
  <2>6. calls' \in Seq(Frames)
    BY <1>4, <2>1
  <2>7. QED
    BY <1>2, <1>3, <1>7, <1>8, <1>10, <1>11, <2>4, <2>5, <2>6, StepKeeps
<1>15. QED
  BY <1>13, <1>14

\* _PyTrash_thread_destroy_chain(): the next object, or none.
LEMMA DestroyKeeps ==
  ASSUME LifeInv, DestroyChain
  PROVE  LifeInv'
<1>1. LifeShape /\ StackInv /\ DyingInv /\ RefInv /\ RingInv
  BY DEF LifeInv
<1>2. /\ calls # <<>> /\ Top.at = "chain" /\ UNCHANGED <<refcnt, memory, contents, held, chain>>
  BY DEF DestroyChain, InCall
<1>3. /\ memory \in [Objects -> {"unused", "alive", "dying", "freed"}]
      /\ later \in Seq(Objects) /\ nesting \in Nat
  BY <1>1 DEF LifeShape
<1>4. /\ Top \in Frames /\ Returned \in Seq(Frames) /\ calls = Append(Returned, Top)
      /\ Len(calls) \in Nat /\ Len(Returned) = Len(calls) - 1
      /\ \A f : Now(f) = Append(Returned, f)
  BY <1>1, <1>2, TopIs
<1>5. /\ Top.todo = {} /\ Len(calls) = 1 /\ nesting = 0
      /\ StackOf(Append(Returned, Top), nesting, later)
  <2>1. Top.at # "body" /\ Top.at \in {"chain", "called"} /\ Top.at \in {"begin", "chain"}
    BY <1>2
  <2>2. QED
    BY <1>1, <1>2, <2>1, TopHas
<1>6. UnwindLevel \in Nat /\ UnwindLevel >= 2 /\ Len(Returned) = 0
  BY <1>4, <1>5, ObjectLifeAssumption
<1>7. DyingIn(memory, Returned, later)
  <2>1. DyingIn(memory, Append(Returned, Top), later) /\ ~Deallocs(Top)
    BY <1>1, <1>2, <1>4 DEF DyingInv, Deallocs
  <2>2. QED
    BY <1>4, <2>1, DyingSkip
<1>8. memory' = memory /\ \A q \in Objects : memory'[q] = "alive" <=> memory[q] = "alive"
  BY <1>2
<1>9. ASSUME NEW q \in Objects
      PROVE  Cardinality(InCalls(q, calls, contents)) = Cardinality(InCalls(q, Returned, contents))
  <2>1. Adds(q, Top, contents) = 0
    BY <1>2, <1>5 DEF Adds
  <2>2. Cardinality(InCalls(q, calls, contents)) = Cardinality(InCalls(q, Returned, contents)) + 0
    BY <1>4, <2>1, CallsAppend
  <2>3. QED
    BY <1>4, <2>2, CallsFinite
<1>10. CASE later = <<>>
  <2>1. calls' = Returned /\ later' = later /\ nesting' = nesting
    BY <1>10 DEF DestroyChain
  <2>2. StackOf(Returned, Len(Returned), later)
    <3>1. Len(Returned) = 0 => Len(later) = 0
      BY <1>10
    <3>2. Len(Returned) <= UnwindLevel
      BY <1>6
    <3>3. QED
      BY <1>4, <1>5, <3>1, <3>2, StackPop
  <2>3. StackOf(calls', nesting', later') /\ DyingIn(memory', calls', later')
    <3>1. nesting' = Len(Returned)
      BY <1>5, <1>6, <2>1
    <3>2. QED
      BY <1>7, <1>8, <2>1, <2>2, <3>1, Zenon
  <2>4. ASSUME NEW q \in Objects
        PROVE  Cardinality(InTrash(q, later', contents)) + Cardinality(InCalls(q, calls', contents))
                 = Cardinality(InTrash(q, later, contents)) + Cardinality(InCalls(q, calls, contents))
    BY <1>9, <2>1, Zenon
  <2>5. memory' \in [Objects -> {"unused", "alive", "dying", "freed"}] /\ calls' \in Seq(Frames)
        /\ later' \in Seq(Objects) /\ nesting' \in Nat
    BY <1>3, <1>4, <1>8, <2>1
  <2>6. QED
    BY <1>2, <1>8, <2>3, <2>4, <2>5, StepKeeps
<1>11. CASE later # <<>>
  <2> DEFINE p == Head(later)
             lat == Tail(later)
             g == [op |-> Top.op, at |-> "called", todo |-> Top.todo]
             stack == Append(Returned, g)
             mem == [memory EXCEPT ![p] = "freed"]
  <2>1. p \in Objects /\ lat \in Seq(Objects) /\ later = <<p>> \o lat
    BY <1>3, <1>11
  <2>2. later' = lat /\ nesting' = 1
    BY <1>5, <1>11 DEF DestroyChain, OneLevel
  <2>3. g \in Frames /\ g.at = "called" /\ g.todo = {}
    BY <1>4, <1>5 DEF Frames
  <2>4. calls' = Append(stack, Dealloc(p))
    <3>1. calls' = Append(Now([Top EXCEPT !.at = "called"]), Dealloc(Head(later)))
      BY <1>11 DEF DestroyChain
    <3>2. [Top EXCEPT !.at = "called"] = g
      BY <1>4, FrameIs, Zenon
    <3>3. Now(g) = stack
      BY <1>4
    <3>4. QED
      BY <3>1, <3>2, <3>3, Zenon
  <2>5. mem[p] = "freed" /\ \A q \in Objects : q # p => mem[q] = memory[q]
    BY <1>3, <2>1
  <2> HIDE DEF p, lat, g, mem
  <2>6. stack \in Seq(Frames) /\ Len(stack) = 1 /\ stack[Len(stack)] = g
    BY <1>4, <1>6, <2>3, AppendIs
  <2>7. StackOf(stack, 1, later)
    <3>1. ~Deallocs(g) /\ (g.at # "body" => g.todo = {})
      BY <2>3 DEF Deallocs
    <3>2. 1 = IF g.at \in {"begin", "chain"} THEN Len(Returned) ELSE Len(Returned) + 1
      BY <1>6, <2>3
    <3>3. 1 <= UnwindLevel
      BY <1>6
    <3>4. QED
      BY <1>4, <1>5, <1>6, <2>3, <3>1, <3>2, <3>3, StackLast
  <2> HIDE DEF stack
  <2>8. StackOf(Append(stack, Dealloc(p)), 1, lat)
    <3>1. stack[Len(stack)].at \in {"body", "called"}
      BY <2>3, <2>6
    <3>2. QED
      BY <2>1, <2>6, <2>7, <3>1, StackPush
  <2>9. DyingIn(mem, Returned, lat) /\ ~Waiting(p, lat)
    <3>1. DyingIn(memory, Returned, <<p>> \o lat)
      BY <1>7, <2>1
    <3>2. mem[p] # "dying"
      BY <2>5
    <3>3. QED
      BY <2>1, <2>5, <3>1, <3>2, DyingTake
  <2>10. DyingIn(mem, stack, lat)
    <3>1. ~Deallocs(g)
      BY <2>3 DEF Deallocs
    <3>2. QED
      BY <1>4, <2>3, <2>9, <3>1, DyingSkip DEF stack
  <2>11. DyingIn(memory, Append(stack, Dealloc(p)), lat)
    <3>1. memory[p] = "dying"
      <4>1. Waiting(p, later)
        BY <2>1, TrashIs
      <4>2. QED
        BY <1>7, <2>1, <4>1 DEF DyingIn
    <3>2. mem[p] # "dying" /\ \A q \in Objects : q # p => memory[q] = mem[q]
      BY <2>5
    <3>3. QED
      BY <2>1, <2>6, <2>10, <3>1, <3>2, DyingPush
  <2>12. p \notin ToSet(lat) /\ ToSet(later) = ToSet(lat) \cup {p}
    BY <2>1, <2>9, TrashIs
  <2>13. ASSUME NEW q \in Objects
         PROVE  Cardinality(InTrash(q, later', contents)) + Cardinality(InCalls(q, calls', contents))
                  = Cardinality(InTrash(q, later, contents)) + Cardinality(InCalls(q, calls, contents))
    <3> DEFINE d == IF q \in contents[p] THEN 1 ELSE 0
               t == Cardinality(InTrash(q, lat, contents))
               c == Cardinality(InCalls(q, Returned, contents))
    <3>1. Dealloc(p) \in Frames /\ Adds(q, Dealloc(p), contents) = d /\ Adds(q, g, contents) = 0
      BY <2>1, <2>3 DEF Dealloc, Frames, Objects, Adds
    <3>2. Cardinality(InCalls(q, stack, contents)) = c + 0
      BY <1>4, <2>3, <3>1, CallsAppend DEF stack
    <3>3. Cardinality(InCalls(q, Append(stack, Dealloc(p)), contents)) = (c + 0) + d
      BY <2>6, <3>1, <3>2, CallsAppend
    <3>4. Cardinality(InTrash(q, later, contents)) = t + d
      BY <2>1, <2>12, TrashMore
    <3>5. Cardinality(InCalls(q, calls, contents)) = c
      BY <1>9
    <3>6. t \in Nat /\ c \in Nat /\ d \in Nat
      BY <1>4, TrashFinite, CallsFinite
    <3> HIDE DEF d, t, c
    <3>7. t + ((c + 0) + d) = (t + d) + c
      BY <3>6
    <3>8. Cardinality(InTrash(q, later', contents)) = t
      BY <2>2, Zenon DEF t
    <3>9. Cardinality(InCalls(q, calls', contents)) = (c + 0) + d
      BY <2>4, <3>3, Zenon
    <3>10. QED
      BY <3>4, <3>5, <3>7, <3>8, <3>9, Zenon
  <2>14. calls' \in Seq(Frames)
    <3>1. Dealloc(p) \in Frames
      BY <2>1 DEF Dealloc, Frames, Objects
    <3>2. QED
      BY <2>4, <2>6, <3>1, AppendIs
  <2>15. StackOf(calls', nesting', later') /\ DyingIn(memory', calls', later')
    BY <1>8, <2>2, <2>4, <2>8, <2>11, Zenon
  <2>16. /\ memory' \in [Objects -> {"unused", "alive", "dying", "freed"}]
         /\ later' \in Seq(Objects) /\ nesting' \in Nat
    BY <1>3, <1>8, <2>1, <2>2
  <2>17. QED
    BY <1>2, <1>8, <2>13, <2>14, <2>15, <2>16, StepKeeps
<1>12. QED
  BY <1>10, <1>11

LEMMA ChainCallKeeps ==
  ASSUME LifeInv, ChainCallReturns
  PROVE  LifeInv'
<1> DEFINE g == [op |-> Top.op, at |-> "chain", todo |-> Top.todo]
<1>1. LifeShape /\ StackInv /\ DyingInv /\ RefInv /\ RingInv
  BY DEF LifeInv
<1>2. /\ calls # <<>> /\ Top.at = "called"
      /\ UNCHANGED <<refcnt, memory, contents, held, chain, later>>
  BY DEF ChainCallReturns, InCall
<1>3. /\ memory \in [Objects -> {"unused", "alive", "dying", "freed"}] /\ later \in Seq(Objects)
  BY <1>1 DEF LifeShape
<1>4. /\ Top \in Frames /\ Returned \in Seq(Frames) /\ calls = Append(Returned, Top)
      /\ Len(calls) \in Nat /\ Len(Returned) = Len(calls) - 1
      /\ \A f : Now(f) = Append(Returned, f)
  BY <1>1, <1>2, TopIs
<1>5. /\ Top.todo = {} /\ Len(calls) = 1 /\ nesting = 1
      /\ StackOf(Append(Returned, Top), nesting, later)
  <2>1. Top.at # "body" /\ Top.at \in {"chain", "called"} /\ Top.at \notin {"begin", "chain"}
    BY <1>2
  <2>2. QED
    BY <1>1, <1>2, <2>1, TopHas
<1>6. UnwindLevel \in Nat /\ UnwindLevel >= 2 /\ Len(Returned) = 0
  BY <1>4, <1>5, ObjectLifeAssumption
<1>7. calls' = Append(Returned, g)
  <2>1. calls' = Now([Top EXCEPT !.at = "chain"])
    BY DEF ChainCallReturns, Again
  <2>2. [Top EXCEPT !.at = "chain"] = g
    BY <1>4, FrameIs, Zenon
  <2>3. QED
    BY <1>4, <2>1, <2>2, Zenon
<1>8. nesting' = 0 /\ later' = later /\ memory' = memory
  BY <1>2, <1>5 DEF ChainCallReturns, OneLevel
<1>9. g \in Frames /\ g.at = "chain" /\ g.todo = {}
  BY <1>4, <1>5 DEF Frames
<1> HIDE DEF g
<1>10. StackOf(Append(Returned, g), 0, later)
  <2>1. ~Deallocs(g) /\ (g.at # "body" => g.todo = {})
    BY <1>9 DEF Deallocs
  <2>2. 0 = IF g.at \in {"begin", "chain"} THEN Len(Returned) ELSE Len(Returned) + 1
    BY <1>6, <1>9
  <2>3. 0 <= UnwindLevel
    BY <1>6
  <2>4. QED
    BY <1>4, <1>5, <1>6, <1>9, <2>1, <2>2, <2>3, StackLast
<1>11. DyingIn(memory, Append(Returned, g), later)
  <2>1. DyingIn(memory, Append(Returned, Top), later) /\ ~Deallocs(Top) /\ ~Deallocs(g)
    BY <1>1, <1>2, <1>4, <1>9 DEF DyingInv, Deallocs
  <2>2. QED
    BY <1>4, <1>9, <2>1, DyingSame
<1>12. ASSUME NEW q \in Objects
       PROVE  Cardinality(InTrash(q, later', contents)) + Cardinality(InCalls(q, calls', contents))
                = Cardinality(InTrash(q, later, contents)) + Cardinality(InCalls(q, calls, contents))
  <2>1. Adds(q, Top, contents) = Adds(q, g, contents)
    BY <1>2, <1>5, <1>9 DEF Adds
  <2>2. Cardinality(InCalls(q, Append(Returned, g), contents))
          = Cardinality(InCalls(q, Append(Returned, Top), contents))
    BY <1>4, <1>9, <2>1, CallsAppend
  <2>3. QED
    BY <1>4, <1>7, <1>8, <2>2, Zenon
<1>13. calls' \in Seq(Frames) /\ nesting' \in Nat
  BY <1>4, <1>7, <1>8, <1>9, AppendIs
<1>14. StackOf(calls', nesting', later') /\ DyingIn(memory', calls', later')
  BY <1>7, <1>8, <1>10, <1>11, Zenon
<1>15. /\ memory' \in [Objects -> {"unused", "alive", "dying", "freed"}] /\ later' \in Seq(Objects)
       /\ \A q \in Objects : memory'[q] = "alive" <=> memory[q] = "alive"
  BY <1>3, <1>8
<1>16. QED
  BY <1>2, <1>12, <1>13, <1>14, <1>15, StepKeeps

-----------------------------------------------------------------------------
(* Births, and the steps of all.                                           *)

\* Nothing is deallocated: no reference is in the trash or in a call.
LEMMA AtRest ==
  ASSUME LifeInv, calls = <<>>
  PROVE  /\ later = <<>>
         /\ \A q : InTrash(q, later, contents) = {} /\ InCalls(q, calls, contents) = {}
<1>1. /\ StackOf(calls, nesting, later) /\ Len(calls) = 0 /\ later \in Seq(Objects)
      /\ DOMAIN calls = {}
  BY DEF LifeInv, LifeShape, StackInv
<1>2. Len(later) = 0
  BY <1>1 DEF StackOf
<1>3. later = <<>>
  BY <1>1, <1>2
<1>4. ToSet(later) = {}
  BY <1>3 DEF ToSet
<1>5. QED
  BY <1>1, <1>3, <1>4 DEF InTrash, InCalls

\* What _Py_AddToAllObjects() adds.
LEMMA AddKeeps ==
  ASSUME RingInv, NEW x \in Places, obNext[x] = Null,
         obNext' = NextWith(obNext, obPrev, x), obPrev' = PrevWith(obNext, obPrev, x)
  PROVE  /\ obNext' \in [Places -> Places \cup {Null}] /\ obPrev' \in [Places -> Places \cup {Null}]
         /\ Ring(obNext', obPrev')
         /\ \A y \in Places : obNext'[y] # Null <=> obNext[y] # Null \/ y = x
<1>1. /\ obNext \in [Places -> Places \cup {Null}] /\ obPrev \in [Places -> Places \cup {Null}]
      /\ Ring(obNext, obPrev)
  BY DEF RingInv
<1>2. QED
  BY <1>1, RingInsert

LEMMA NewKeeps ==
  ASSUME LifeInv, NEW o \in Objects, NEW objs \in SUBSET held, NEW passed \in SUBSET objs,
         New(o, objs, passed)
  PROVE  LifeInv'
<1>1. LifeShape /\ StackInv /\ DyingInv /\ RefInv /\ RingInv
  BY DEF LifeInv
<1>2. /\ calls = <<>> /\ memory[o] = "unused"
      /\ later' = later /\ nesting' = nesting /\ calls' = calls
      /\ held' = (held \ passed) \cup {o}
  BY DEF New, trash
<1>3. /\ refcnt \in [Objects -> Nat] /\ held \in SUBSET Objects
      /\ memory \in [Objects -> {"unused", "alive", "dying", "freed"}]
      /\ contents \in [Objects -> SUBSET Objects]
      /\ later \in Seq(Objects) /\ calls \in Seq(Frames) /\ nesting \in Nat
  BY <1>1 DEF LifeShape
<1>4. /\ memory' \in [Objects -> {"unused", "alive", "dying", "freed"}]
      /\ memory'[o] = "alive" /\ \A q \in Objects : q # o => memory'[q] = memory[q]
  <2>1. memory' = [memory EXCEPT ![o] = "alive"]
    BY DEF New
  <2>2. QED
    BY <1>3, <2>1
<1>5. /\ contents' \in [Objects -> SUBSET Objects]
      /\ contents'[o] = objs /\ \A q \in Objects : q # o => contents'[q] = contents[q]
  <2>1. contents' = [contents EXCEPT ![o] = objs]
    BY DEF New
  <2>2. QED
    BY <1>3, <2>1
<1>6. /\ refcnt' \in [Objects -> Nat] /\ refcnt'[o] = 1
      /\ \A q \in Objects : q # o =>
           refcnt'[q] = refcnt[q] + (IF q \in objs \ passed THEN 1 ELSE 0)
  <2> DEFINE more == IncRefs(objs \ passed)
  <2>1. refcnt' = [more EXCEPT ![o] = 1]
    BY DEF New
  <2>2. more = [q \in Objects |-> IF q \in objs \ passed THEN refcnt[q] + 1 ELSE refcnt[q]]
    BY DEF IncRefs
  <2> HIDE DEF more
  <2>3. /\ more \in [Objects -> Nat]
        /\ \A q \in Objects : more[q] = refcnt[q] + (IF q \in objs \ passed THEN 1 ELSE 0)
    BY <1>3, <2>2
  <2>4. QED
    BY <2>1, <2>3
<1>7. /\ later = <<>>
      /\ \A q : InTrash(q, later, contents) = {} /\ InCalls(q, calls, contents) = {}
  BY <1>2, AtRest
<1>8. ToSet(later) = {} /\ DOMAIN calls = {}
  BY <1>2, <1>7 DEF ToSet
<1>9. \A q \in Objects : Cardinality(InAlive(q, memory, contents)) \in Nat
  BY AliveFinite
<1>10. \A q \in Objects :
         /\ refcnt[q] = Cardinality(InAlive(q, memory, contents)) + (IF q \in held THEN 1 ELSE 0)
         /\ refcnt[q] > 0 <=> memory[q] = "alive"
  <2>1. Cardinality({}) = 0
    BY FS_EmptySet
  <2>2. ASSUME NEW q \in Objects
        PROVE  refcnt[q] = Cardinality(InAlive(q, memory, contents)) + (IF q \in held THEN 1 ELSE 0)
    <3> DEFINE a == Cardinality(InAlive(q, memory, contents))
               h == IF q \in held THEN 1 ELSE 0
    <3>1. refcnt[q] = Refs(q, memory, contents, later, calls, held)
      BY <1>1 DEF RefInv
    <3>2. Refs(q, memory, contents, later, calls, held) = a + 0 + 0 + h
      BY <1>7, <2>1 DEF Refs
    <3>3. a \in Nat /\ h \in Nat
      BY <1>9
    <3> HIDE DEF a, h
    <3>4. a + 0 + 0 + h = a + h
      BY <3>3
    <3>5. QED
      BY <3>1, <3>2, <3>4 DEF a, h
  <2>3. \A q \in Objects : refcnt[q] > 0 <=> memory[q] = "alive"
    BY <1>1 DEF RefInv
  <2>4. QED
    BY <2>2, <2>3
<1>11. /\ refcnt[o] = 0 /\ o \notin held /\ o \notin objs /\ o \notin passed
       /\ Cardinality(InAlive(o, memory, contents)) = 0
  <2> DEFINE a == Cardinality(InAlive(o, memory, contents))
  <2>1. /\ a \in Nat /\ refcnt[o] \in Nat /\ ~(refcnt[o] > 0)
        /\ refcnt[o] = a + (IF o \in held THEN 1 ELSE 0)
    BY <1>2, <1>3, <1>9, <1>10
  <2> HIDE DEF a
  <2>2. refcnt[o] = 0 /\ o \notin held /\ a = 0
    BY <2>1
  <2>3. QED
    BY <2>2 DEF a
<1>12. ASSUME NEW q \in Objects
       PROVE  Cardinality(InAlive(q, memory', contents'))
                = Cardinality(InAlive(q, memory, contents)) + (IF q \in objs THEN 1 ELSE 0)
  <2> DEFINE S == InAlive(q, memory, contents)
             T == InAlive(q, memory', contents')
  <2>1. IsFiniteSet(S) /\ Cardinality(S) \in Nat
    BY AliveFinite
  <2>2. o \notin S
    BY <1>2 DEF InAlive
  <2>3. CASE q \in objs
    <3>1. T = S \cup {o}
      BY <1>4, <1>5, <2>3 DEF InAlive
    <3> HIDE DEF S, T
    <3>2. Cardinality(T) = Cardinality(S) + 1
      BY <2>1, <2>2, <3>1, OneMore
    <3>3. QED
      BY <2>3, <3>2 DEF S, T
  <2>4. CASE q \notin objs
    <3>1. T = S
      BY <1>2, <1>4, <1>5, <2>4 DEF InAlive
    <3> HIDE DEF S, T
    <3>2. Cardinality(T) = Cardinality(S) + 0
      BY <2>1, <3>1
    <3>3. QED
      BY <2>4, <3>2 DEF S, T
  <2>5. QED
    BY <2>3, <2>4
<1>13. ASSUME NEW q \in Objects
       PROVE  Refs(q, memory', contents', later', calls', held')
                = Cardinality(InAlive(q, memory', contents')) + (IF q \in held' THEN 1 ELSE 0)
  <2> DEFINE a == Cardinality(InAlive(q, memory', contents'))
             h == IF q \in held' THEN 1 ELSE 0
  <2>1. InTrash(q, later', contents') = {} /\ InCalls(q, calls', contents') = {}
    BY <1>2, <1>8 DEF InTrash, InCalls
  <2>2. Cardinality({}) = 0
    BY FS_EmptySet
  <2>3. Refs(q, memory', contents', later', calls', held') = a + 0 + 0 + h
    BY <2>1, <2>2 DEF Refs
  <2>4. a \in Nat /\ h \in Nat
    BY AliveFinite
  <2> HIDE DEF a, h
  <2>5. a + 0 + 0 + h = a + h
    BY <2>4
  <2>6. QED
    BY <2>3, <2>5 DEF a, h
<1>14. LifeShape'
  <2>1. held' \in SUBSET Objects
    BY <1>2, <1>3
  <2>2. later' \in Seq(Objects) /\ calls' \in Seq(Frames) /\ nesting' \in Nat
    BY <1>2, <1>3
  <2>3. QED
    BY <1>4, <1>5, <1>6, <2>1, <2>2 DEF LifeShape
<1>15. StackInv'
  BY <1>1, <1>2 DEF StackInv
<1>16. DyingInv'
  <2>1. \A q \in Objects : memory'[q] = "dying" <=> memory[q] = "dying"
    BY <1>2, <1>4
  <2>2. DyingIn(memory', calls, later)
    BY <1>1, <2>1 DEF DyingInv, DyingIn
  <2>3. QED
    BY <1>2, <2>2 DEF DyingInv
<1>17. RefInv'
  <2>1. ASSUME NEW q \in Objects
        PROVE  /\ refcnt'[q] = Refs(q, memory', contents', later', calls', held')
               /\ refcnt'[q] > 0 <=> memory'[q] = "alive"
    <3> DEFINE a == Cardinality(InAlive(q, memory, contents))
               a2 == Cardinality(InAlive(q, memory', contents'))
               r2 == Refs(q, memory', contents', later', calls', held')
    <3>1. /\ a \in Nat /\ a2 = a + (IF q \in objs THEN 1 ELSE 0)
          /\ r2 = a2 + (IF q \in held' THEN 1 ELSE 0)
      BY <1>9, <1>12, <1>13
    <3>2. CASE q = o
      <4>1. a = 0 /\ q \notin objs /\ q \in held' /\ refcnt'[q] = 1 /\ memory'[q] = "alive"
        BY <1>2, <1>4, <1>6, <1>11, <3>2
      <4> HIDE DEF a, a2, r2
      <4>2. refcnt'[q] = r2 /\ refcnt'[q] > 0
        BY <3>1, <4>1
      <4>3. QED
        BY <4>1, <4>2 DEF r2
    <3>3. CASE q # o
      <4>1. refcnt[q] = a + (IF q \in held THEN 1 ELSE 0) /\ (refcnt[q] > 0 <=> memory[q] = "alive")
        BY <1>10
      <4>2. /\ refcnt'[q] = refcnt[q] + (IF q \in objs \ passed THEN 1 ELSE 0)
            /\ memory'[q] = memory[q]
        BY <1>4, <1>6, <3>3
      <4>3. (q \in held' <=> q \in held /\ q \notin passed) /\ (q \in passed => q \in objs)
            /\ (q \in objs => q \in held)
        BY <1>2, <3>3
      <4> HIDE DEF a, a2, r2
      <4>4. refcnt'[q] = r2
        BY <3>1, <4>1, <4>2, <4>3
      <4>5. refcnt'[q] > 0 <=> refcnt[q] > 0
        BY <3>1, <4>1, <4>2, <4>3
      <4>6. QED
        BY <4>1, <4>2, <4>4, <4>5 DEF r2
    <3>4. QED
      BY <3>2, <3>3
  <2>2. QED
    BY <2>1 DEF RefInv
<1>18. RingInv'
  <2>1. o \in Places /\ \A q \in Objects : q \in Places
    BY PlacesAre
  <2>2. \A q \in Objects : memory[q] = "alive" <=> obNext[q] # Null
    BY <1>1 DEF RingInv
  <2>3. obNext[o] = Null
    BY <1>2, <2>2
  <2>4. obNext' = NextWith(obNext, obPrev, o) /\ obPrev' = PrevWith(obNext, obPrev, o)
    BY DEF New, AddToAllObjects, Inserts, NextWith, PrevWith
  <2>5. /\ obNext' \in [Places -> Places \cup {Null}] /\ obPrev' \in [Places -> Places \cup {Null}]
        /\ Ring(obNext', obPrev')
        /\ \A y \in Places : obNext'[y] # Null <=> obNext[y] # Null \/ y = o
    BY <1>1, <2>1, <2>3, <2>4, AddKeeps
  <2>6. \A q \in Objects : memory'[q] = "alive" <=> obNext'[q] # Null
    BY <1>4, <2>1, <2>2, <2>5
  <2>7. QED
    BY <2>5, <2>6 DEF RingInv
<1>19. QED
  BY <1>14, <1>15, <1>16, <1>17, <1>18 DEF LifeInv

LEMMA ReadyTypeKeeps ==
  ASSUME LifeInv, NEW t \in StaticTypes, ReadyType(t)
  PROVE  LifeInv'
<1>1. LifeShape /\ StackInv /\ DyingInv /\ RefInv /\ RingInv
  BY DEF LifeInv
<1>2. /\ refcnt' = refcnt /\ memory' = memory /\ contents' = contents /\ held' = held
      /\ later' = later /\ nesting' = nesting /\ calls' = calls
  BY DEF ReadyType, trash
<1>3. LifeShape' /\ StackInv' /\ DyingInv'
  BY <1>1, <1>2 DEF LifeShape, StackInv, DyingInv
<1>4. RefInv'
  <2>1. ASSUME NEW q \in Objects
        PROVE  Refs(q, memory', contents', later', calls', held')
                 = Refs(q, memory, contents, later, calls, held)
    BY <1>2, Zenon
  <2>2. QED
    BY <1>1, <1>2, <2>1 DEF RefInv
<1>5. RingInv'
  <2>1. t \in Places /\ t \notin Objects /\ \A q \in Objects : q \in Places
    BY ObjectLifeAssumption DEF Places, Objects
  <2>2. /\ \A q \in Objects : memory[q] = "alive" <=> obNext[q] # Null
        /\ Ring(obNext, obPrev)
    BY <1>1 DEF RingInv
  <2>3. CASE obPrev[t] = Null
    <3>1. obNext[t] = Null
      BY <2>1, <2>2, <2>3 DEF Ring, RingOn, On
    <3>2. obNext' = NextWith(obNext, obPrev, t) /\ obPrev' = PrevWith(obNext, obPrev, t)
      BY <2>3 DEF ReadyType, AddToAllObjects, Inserts, NextWith, PrevWith
    <3>3. /\ obNext' \in [Places -> Places \cup {Null}] /\ obPrev' \in [Places -> Places \cup {Null}]
          /\ Ring(obNext', obPrev')
          /\ \A y \in Places : obNext'[y] # Null <=> obNext[y] # Null \/ y = t
      BY <1>1, <2>1, <3>1, <3>2, AddKeeps
    <3>4. \A q \in Objects : memory'[q] = "alive" <=> obNext'[q] # Null
      BY <1>2, <2>1, <2>2, <3>3
    <3>5. QED
      BY <3>3, <3>4 DEF RingInv
  <2>4. CASE obPrev[t] # Null
    <3>1. obNext' = obNext /\ obPrev' = obPrev
      BY <2>4 DEF ReadyType, AddToAllObjects, Inserts, chain
    <3>2. QED
      BY <1>1, <1>2, <3>1 DEF RingInv
  <2>5. QED
    BY <2>3, <2>4
<1>6. QED
  BY <1>3, <1>4, <1>5 DEF LifeInv

LEMMA LifeNextInv == LifeInv /\ [LifeNext]_lifeVars => LifeInv'
<1> SUFFICES ASSUME LifeInv, [LifeNext]_lifeVars PROVE LifeInv'
  OBVIOUS
<1>1. ASSUME NEW o \in Objects, NEW objs \in SUBSET held, NEW passed \in SUBSET objs,
             New(o, objs, passed)
      PROVE  LifeInv'
  BY <1>1, NewKeeps
<1>2. ASSUME NEW t \in StaticTypes, ReadyType(t)
      PROVE  LifeInv'
  BY <1>2, ReadyTypeKeeps
<1>3. ASSUME NEW o \in Objects, Release(o)
      PROVE  LifeInv'
  BY <1>3, ReleaseKeeps
<1>4. CASE BeginDealloc
  BY <1>4, BeginKeeps
<1>5. CASE ReleaseContents
  BY <1>5, ReleaseContentsKeeps
<1>6. CASE EndDealloc
  BY <1>6, EndKeeps
<1>7. CASE DestroyChain
  BY <1>7, DestroyKeeps
<1>8. CASE ChainCallReturns
  BY <1>8, ChainCallKeeps
<1>9. CASE UNCHANGED lifeVars
  <2>1. /\ refcnt' = refcnt /\ memory' = memory /\ contents' = contents /\ held' = held
        /\ later' = later /\ nesting' = nesting /\ calls' = calls
        /\ obNext' = obNext /\ obPrev' = obPrev
    BY <1>9 DEF lifeVars, chain, trash
  <2>2. LifeShape' /\ StackInv' /\ DyingInv' /\ RingInv'
    BY <2>1 DEF LifeInv, LifeShape, StackInv, DyingInv, RingInv
  <2>3. RefInv'
    <3>1. ASSUME NEW q \in Objects
          PROVE  Refs(q, memory', contents', later', calls', held')
                   = Refs(q, memory, contents, later, calls, held)
      BY <2>1, Zenon
    <3>2. QED
      BY <2>1, <3>1 DEF LifeInv, RefInv
  <2>4. QED
    BY <2>2, <2>3 DEF LifeInv
<1>10. QED
  BY <1>1, <1>2, <1>3, <1>4, <1>5, <1>6, <1>7, <1>8, <1>9, Zenon DEF LifeNext

\* What LifeInv says of each property.
LEMMA LifeInvShows ==
  LifeInv => LifeTypeOK /\ StackBounded /\ NothingForgotten /\ RefsCounted /\ ChainWhole
<1> SUFFICES ASSUME LifeInv
             PROVE  LifeTypeOK /\ StackBounded /\ NothingForgotten /\ RefsCounted /\ ChainWhole
  OBVIOUS
<1>1. LifeShape /\ StackInv /\ DyingInv /\ RefInv /\ RingInv
  BY DEF LifeInv
<1>2. LifeTypeOK
  BY <1>1 DEF LifeShape, RingInv, LifeTypeOK
<1>3. StackBounded
  <2>1. calls \in Seq(Frames) /\ nesting \in Nat /\ UnwindLevel \in Nat
    BY <1>1, ObjectLifeAssumption DEF LifeShape
  <2>2. StackOf(calls, nesting, later) /\ Len(calls) \in Nat
    BY <1>1, <2>1 DEF StackInv
  <2>3. nesting <= UnwindLevel
    BY <2>2 DEF StackOf
  <2>4. Len(calls) > 0 => nesting = Len(calls) \/ nesting = Len(calls) - 1
    BY <2>2 DEF StackOf
  <2>5. QED
    BY <2>1, <2>2, <2>3, <2>4 DEF StackBounded
<1>4. NothingForgotten
  <2> SUFFICES ASSUME calls = <<>>
               PROVE  /\ later = <<>> /\ nesting = 0
                      /\ \A o \in Objects : memory[o] # "dying"
                      /\ \A o \in Objects : memory[o] = "alive" => refcnt[o] > 0
    BY DEF NothingForgotten
  <2>1. later = <<>>
    BY AtRest
  <2>2. nesting = 0
    BY <1>1 DEF StackInv, StackOf
  <2>3. ASSUME NEW o \in Objects
        PROVE  memory[o] # "dying"
    <3>1. ~Calling(o, calls) /\ ~Waiting(o, later)
      BY <2>1 DEF Calling, Waiting
    <3>2. QED
      BY <1>1, <3>1 DEF DyingInv, DyingIn
  <2>4. QED
    BY <1>1, <2>1, <2>2, <2>3 DEF RefInv
<1>5. RefsCounted
  BY <1>1, Zenon DEF RefInv, RefsCounted, Refs, InAlive, InTrash, InCalls
<1>6. ChainWhole
  <2>1. RingOn(obNext, obPrev, On(obNext))
    BY <1>1 DEF RingInv, Ring
  <2>2. \A o \in Objects : o \in Places /\ (memory[o] = "alive" <=> obNext[o] # Null)
    BY <1>1, PlacesAre DEF RingInv
  <2> DEFINE places == {x \in Places : obNext[x] # Null}
  <2>3. On(obNext) = places
    BY DEF On
  <2>4. {o \in Objects : memory[o] = "alive"} = places \cap Objects
    BY <2>2
  <2>5. RingOn(obNext, obPrev, places)
    BY <2>1, <2>3, Zenon
  <2> HIDE DEF places
  <2>6. /\ Refchain \in places
        /\ \A x \in places : obNext[x] \in places /\ obPrev[obNext[x]] = x
        /\ \A part \in SUBSET places :
             Refchain \in part /\ (\A x \in part : obNext[x] \in part) => part = places
    BY <2>5 DEF RingOn
  <2>7. QED
    BY <2>4, <2>6 DEF ChainWhole, places
<1>7. QED
  BY <1>2, <1>3, <1>4, <1>5, <1>6

-----------------------------------------------------------------------------
(* Py_ReprEnter() and Py_ReprLeave().                                      *)

ReprFrames == [obj : Containers, todo : SUBSET Containers]

ReprShape ==
  /\ inside \in [Containers -> SUBSET Containers]
  /\ reprs \in Seq(ReprFrames)
  /\ listed \in Seq(Containers)
  /\ lost \in Seq(Containers)
  /\ raised \in BOOLEAN

\* The containers the calls are for, and how often one is in a sequence.
ObjsOf(stack) == [i \in DOMAIN stack |-> stack[i].obj]
Times(obj, seq) == Cardinality({i \in DOMAIN seq : seq[i] = obj})

\* No container is listed twice, and what is listed is being written; each
\* other call has its container among those that were not listed.
ListOf(list, objs, unlisted) ==
  /\ \A i, j \in 1 .. Len(list) : list[i] = list[j] => i = j
  /\ \A obj \in Containers :
       /\ obj \in ToSet(list) => Times(obj, objs) > 0
       /\ Times(obj, objs)
            <= Times(obj, unlisted) + (IF obj \in ToSet(list) THEN 1 ELSE 0)

ListInv == ListOf(listed, ObjsOf(reprs), lost)

ReprInv == ReprShape /\ ListInv

-----------------------------------------------------------------------------
(* The containers being written.                                           *)

LEMMA TimesIs ==
  ASSUME NEW seq \in Seq(Containers), NEW obj
  PROVE  /\ Times(obj, seq) \in Nat /\ IsFiniteSet({i \in DOMAIN seq : seq[i] = obj})
         /\ Times(obj, seq) > 0 <=> \E i \in DOMAIN seq : seq[i] = obj
<1> DEFINE S == {i \in DOMAIN seq : seq[i] = obj}
<1>1. 1 \in Int /\ Len(seq) \in Int /\ DOMAIN seq = 1 .. Len(seq)
  OBVIOUS
<1>2. IsFiniteSet(S)
  <2>1. IsFiniteSet(DOMAIN seq)
    BY <1>1, FS_Interval
  <2>2. QED
    BY <2>1, FS_Subset
<1>3. Cardinality(S) \in Nat /\ (Cardinality(S) = 0 <=> S = {})
  <2> HIDE DEF S
  <2>1. QED
    BY <1>2, FS_CardinalityType, FS_EmptySet
<1>4. S # {} <=> \E i \in DOMAIN seq : seq[i] = obj
  OBVIOUS
<1>5. Cardinality(S) > 0 <=> S # {}
  <2> HIDE DEF S
  <2>1. QED
    BY <1>3
<1>6. Times(obj, seq) = Cardinality(S)
  BY DEF Times
<1>7. QED
  BY <1>2, <1>3, <1>4, <1>5, <1>6

LEMMA TimesAppend ==
  ASSUME NEW seq \in Seq(Containers), NEW x \in Containers, NEW obj
  PROVE  Times(obj, Append(seq, x)) = Times(obj, seq) + (IF x = obj THEN 1 ELSE 0)
<1> DEFINE n == Len(seq)
           more == Append(seq, x)
           S == {i \in DOMAIN seq : seq[i] = obj}
           T == {i \in DOMAIN more : more[i] = obj}
<1>1. /\ n \in Nat /\ DOMAIN seq = 1 .. n /\ DOMAIN more = 1 .. n + 1
      /\ more[n + 1] = x /\ \A i \in 1 .. n : more[i] = seq[i]
      /\ \A i \in 1 .. n + 1 : i \in 1 .. n \/ i = n + 1
      /\ \A i \in 1 .. n : i \in 1 .. n + 1
      /\ n + 1 \in 1 .. n + 1 /\ n + 1 \notin 1 .. n
  OBVIOUS
<1>2. IsFiniteSet(S) /\ Cardinality(S) \in Nat /\ Times(obj, seq) = Cardinality(S)
  BY TimesIs DEF Times
<1>3. Times(obj, more) = Cardinality(T)
  BY DEF Times
<1> HIDE DEF n, more
<1>4. n + 1 \notin S
  BY <1>1
<1>5. CASE x = obj
  <2>1. T = S \cup {n + 1}
    <3>1. ASSUME NEW i
          PROVE  i \in T <=> i \in S \/ i = n + 1
      BY <1>1, <1>5
    <3>2. QED
      BY <3>1
  <2> HIDE DEF S, T
  <2>2. Cardinality(T) = Cardinality(S) + 1
    BY <1>2, <1>4, <2>1, OneMore
  <2>3. QED
    BY <1>2, <1>3, <1>5, <2>2 DEF more
<1>6. CASE x # obj
  <2>1. T = S
    <3>1. ASSUME NEW i
          PROVE  i \in T <=> i \in S
      BY <1>1, <1>6
    <3>2. QED
      BY <3>1
  <2> HIDE DEF S, T
  <2>2. Cardinality(T) = Cardinality(S) + 0
    BY <1>2, <2>1
  <2>3. QED
    BY <1>2, <1>3, <1>6, <2>2 DEF more
<1>7. QED
  BY <1>5, <1>6

\* One more call.
LEMMA WrittenAppend ==
  ASSUME NEW stack \in Seq(ReprFrames), NEW f \in ReprFrames
  PROVE  /\ ObjsOf(stack) \in Seq(Containers)
         /\ Append(stack, f) \in Seq(ReprFrames)
         /\ ObjsOf(Append(stack, f)) = Append(ObjsOf(stack), f.obj)
         /\ f.obj \in Containers
<1> DEFINE n == Len(stack)
           more == Append(stack, f)
           w == ObjsOf(stack)
           v == ObjsOf(more)
<1>1. /\ n \in Nat /\ DOMAIN stack = 1 .. n /\ DOMAIN more = 1 .. n + 1
      /\ more[n + 1] = f /\ \A i \in 1 .. n : more[i] = stack[i]
      /\ \A i \in 1 .. n + 1 : i \in 1 .. n \/ i = n + 1
      /\ \A i \in 1 .. n : i \in 1 .. n + 1 /\ stack[i] \in ReprFrames
      /\ n + 1 \in 1 .. n + 1 /\ more \in Seq(ReprFrames)
  OBVIOUS
<1>2. f.obj \in Containers /\ \A i \in 1 .. n : stack[i].obj \in Containers
  BY <1>1 DEF ReprFrames
<1> HIDE DEF n, more
<1>3. w \in Seq(Containers) /\ Len(w) = n /\ \A i \in 1 .. n : w[i] = stack[i].obj
  <2>1. w = [i \in 1 .. n |-> stack[i].obj]
    BY <1>1 DEF ObjsOf
  <2> HIDE DEF w
  <2>2. QED
    BY <1>1, <1>2, <2>1
<1>4. v \in Seq(Containers) /\ Len(v) = n + 1 /\ \A i \in 1 .. n + 1 : v[i] = more[i].obj
  <2>1. v = [i \in 1 .. n + 1 |-> more[i].obj]
    BY <1>1 DEF ObjsOf
  <2>2. \A i \in 1 .. n + 1 : more[i].obj \in Containers
    BY <1>1, <1>2
  <2> HIDE DEF v
  <2>3. QED
    BY <1>1, <2>1, <2>2
<1>5. v = Append(w, f.obj)
  <2> DEFINE u == Append(w, f.obj)
  <2> HIDE DEF w, v
  <2>1. /\ u \in Seq(Containers) /\ Len(u) = n + 1 /\ u[n + 1] = f.obj
        /\ \A i \in 1 .. n : u[i] = w[i]
    BY <1>1, <1>2, <1>3
  <2> HIDE DEF u
  <2>2. \A i \in 1 .. Len(v) : v[i] = u[i]
    BY <1>1, <1>3, <1>4, <2>1
  <2>3. v = u
    BY <1>4, <2>1, <2>2, SeqEqual
  <2>4. QED
    BY <2>3 DEF u
<1>6. QED
  BY <1>1, <1>2, <1>3, <1>5 DEF more

\* The innermost call, and those below it; and the calls when it has gone on.
LEMMA ReprTopIs ==
  ASSUME reprs \in Seq(ReprFrames), reprs # <<>>
  PROVE  /\ Last(reprs) \in ReprFrames /\ Front(reprs) \in Seq(ReprFrames)
         /\ Len(Front(reprs)) = Len(reprs) - 1 /\ Len(reprs) \in Nat
         /\ reprs = Append(Front(reprs), Last(reprs))
<1> DEFINE R == Front(reprs)
           n == Len(reprs)
           x == Last(reprs)
<1>1. /\ n \in Nat \ {0} /\ x = reprs[n] /\ x \in ReprFrames /\ R \in Seq(ReprFrames)
      /\ Len(R) = n - 1 /\ \A i \in 1 .. n - 1 : R[i] = reprs[i]
  BY FrontIs
<1> DEFINE s == Append(R, x)
<1> HIDE DEF R, x
<1>2. s \in Seq(ReprFrames) /\ Len(s) = n /\ s[n] = x /\ \A i \in 1 .. n - 1 : s[i] = reprs[i]
  BY <1>1
<1> HIDE DEF s
<1>3. \A i \in 1 .. n : i \in 1 .. n - 1 \/ i = n
  BY <1>1
<1>4. \A i \in 1 .. Len(reprs) : reprs[i] = s[i]
  BY <1>1, <1>2, <1>3
<1>5. reprs = s
  BY <1>2, <1>4, SeqEqual
<1>6. QED
  BY <1>1, <1>5 DEF s, R, x

LEMMA WrittenSame ==
  ASSUME reprs \in Seq(ReprFrames), reprs # <<>>, NEW obj
  PROVE  LET below == [reprs EXCEPT ![Len(reprs)].todo = @ \ {obj}]
         IN below \in Seq(ReprFrames) /\ ObjsOf(below) = ObjsOf(reprs)
<1> DEFINE n == Len(reprs)
           f == [reprs[n] EXCEPT !.todo = reprs[n].todo \ {obj}]
           below == [reprs EXCEPT ![n].todo = @ \ {obj}]
<1>1. n \in Nat /\ n > 0 /\ DOMAIN reprs = 1 .. n /\ n \in 1 .. n /\ reprs[n] \in ReprFrames
  OBVIOUS
<1>2. f \in ReprFrames /\ f.obj = reprs[n].obj
  BY <1>1 DEF ReprFrames
<1>3. below = [reprs EXCEPT ![n] = f]
  OBVIOUS
<1> HIDE DEF f, below
<1>4. /\ below \in Seq(ReprFrames) /\ DOMAIN below = 1 .. n
      /\ \A i \in 1 .. n : below[i] = IF i = n THEN f ELSE reprs[i]
  BY <1>1, <1>2, <1>3
<1>5. ObjsOf(below) = ObjsOf(reprs)
  <2>1. \A i \in 1 .. n : below[i].obj = reprs[i].obj
    BY <1>2, <1>4
  <2>2. ObjsOf(below) = [i \in 1 .. n |-> below[i].obj]
    BY <1>4 DEF ObjsOf
  <2>3. ObjsOf(reprs) = [i \in 1 .. n |-> reprs[i].obj]
    BY <1>1 DEF ObjsOf
  <2> HIDE DEF n
  <2>4. QED
    BY <2>1, <2>2, <2>3
<1>6. QED
  BY <1>4, <1>5 DEF below

\* Py_ReprLeave() takes the container out, and nothing else.
LEMMA UnlistedIs ==
  ASSUME listed \in Seq(Containers), NEW obj,
         \A i, j \in 1 .. Len(listed) : listed[i] = listed[j] => i = j
  PROVE  /\ Unlisted(obj) \in Seq(Containers)
         /\ \A i, j \in 1 .. Len(Unlisted(obj)) : Unlisted(obj)[i] = Unlisted(obj)[j] => i = j
         /\ ToSet(Unlisted(obj)) = ToSet(listed) \ {obj}
<1> DEFINE n == Len(listed)
<1>1. n \in Nat /\ DOMAIN listed = 1 .. n /\ \A i \in 1 .. n : listed[i] \in Containers
  OBVIOUS
<1>2. ToSet(listed) = {listed[i] : i \in 1 .. n}
  BY <1>1 DEF ToSet
<1>3. CASE obj \notin ToSet(listed)
  <2>1. Unlisted(obj) = listed
    BY <1>3 DEF Unlisted
  <2>2. ToSet(listed) = ToSet(listed) \ {obj}
    BY <1>3
  <2>3. QED
    BY <2>1, <2>2
<1>4. CASE obj \in ToSet(listed)
  <2>1. PICK k \in 1 .. n : listed[k] = obj
    BY <1>2, <1>4
  <2>2. \A i \in 1 .. n : listed[i] = obj <=> i = k
    BY <2>1
  <2> DEFINE I == {i \in 1 .. n : listed[i] = obj}
  <2>3. I = {k}
    BY <2>1, <2>2
  <2>4. SelectLastInSeq(listed, LAMBDA x : x = obj) = IF I # {} THEN Max(I) ELSE 0
    BY DEF SelectLastInSeq
  <2>5. Max(I) = k
    <3>1. k \in I /\ (\A y \in I : k >= y) /\ \A x \in I : x = k
      BY <2>1, <2>3
    <3>2. QED
      BY <3>1 DEF Max
  <2>6. Unlisted(obj) = RemoveAt(listed, k)
    <3>1. SelectLastInSeq(listed, LAMBDA x : x = obj) = k
      <4>1. I # {}
        BY <2>3
      <4> HIDE DEF I
      <4>2. QED
        BY <2>4, <2>5, <4>1
    <3>2. QED
      BY <1>4, <3>1 DEF Unlisted
  <2> DEFINE a == SubSeq(listed, 1, k - 1)
             b == SubSeq(listed, k + 1, n)
             u == a \o b
  <2>7. Unlisted(obj) = u
    BY <2>6 DEF RemoveAt
  <2>8. /\ 1 \in Int /\ k - 1 \in Int /\ k + 1 \in Int /\ n \in Int
        /\ k - 1 \in Nat /\ n - k \in Nat /\ k \in Nat
    BY <1>1, <2>1
  <2>9. /\ a \in Seq(Containers) /\ Len(a) = k - 1
        /\ \A i \in 1 .. k - 1 : a[i] = listed[i]
    <3>1. \A i \in 1 .. k - 1 : listed[i] \in Containers
      BY <1>1, <2>1
    <3>2. /\ a \in Seq(Containers)
          /\ Len(a) = IF 1 <= k - 1 THEN k - 1 - 1 + 1 ELSE 0
          /\ \A i \in 1 .. k - 1 - 1 + 1 : a[i] = listed[1 + i - 1]
      BY <2>8, <3>1, SubSeqProperties
    <3> HIDE DEF a
    <3>3. Len(a) = k - 1
      BY <2>8, <3>2
    <3>4. \A i \in 1 .. k - 1 : i \in 1 .. k - 1 - 1 + 1 /\ 1 + i - 1 = i
      BY <2>8
    <3>5. QED
      BY <3>2, <3>3, <3>4
  <2>10. /\ b \in Seq(Containers) /\ Len(b) = n - k
         /\ \A i \in 1 .. n - k : b[i] = listed[k + i]
    <3>1. \A i \in k + 1 .. n : listed[i] \in Containers
      BY <1>1, <2>1
    <3>2. /\ b \in Seq(Containers)
          /\ Len(b) = IF k + 1 <= n THEN n - (k + 1) + 1 ELSE 0
          /\ \A i \in 1 .. n - (k + 1) + 1 : b[i] = listed[k + 1 + i - 1]
      BY <2>8, <3>1, SubSeqProperties
    <3> HIDE DEF b
    <3>3. Len(b) = n - k
      BY <2>8, <3>2
    <3>4. \A i \in 1 .. n - k : i \in 1 .. n - (k + 1) + 1 /\ k + 1 + i - 1 = k + i
      BY <2>8
    <3>5. QED
      BY <3>2, <3>3, <3>4
  <2> HIDE DEF a, b
  <2>11. /\ u \in Seq(Containers) /\ Len(u) = n - 1 /\ DOMAIN u = 1 .. n - 1
         /\ \A i \in 1 .. n - 1 : u[i] = listed[IF i < k THEN i ELSE i + 1]
    <3>1. /\ u \in Seq(Containers) /\ Len(u) = Len(a) + Len(b)
          /\ \A i \in 1 .. Len(a) + Len(b) : u[i] = IF i <= Len(a) THEN a[i] ELSE b[i - Len(a)]
      <4>1. a \in Seq(Containers) /\ b \in Seq(Containers)
        BY <2>9, <2>10
      <4>2. u \in Seq(Containers)
        BY <4>1
      <4>3. Len(u) = Len(a) + Len(b)
        BY <4>1
      <4>4. ASSUME NEW i \in 1 .. Len(a) + Len(b)
            PROVE  u[i] = IF i <= Len(a) THEN a[i] ELSE b[i - Len(a)]
        BY <4>1
      <4>5. QED
        BY <4>2, <4>3, <4>4
    <3> HIDE DEF u
    <3>2. Len(a) + Len(b) = n - 1
      BY <2>8, <2>9, <2>10
    <3>3. ASSUME NEW i \in 1 .. n - 1
          PROVE  u[i] = listed[IF i < k THEN i ELSE i + 1]
      <4>1. CASE i < k
        <5>1. i \in 1 .. k - 1 /\ i <= Len(a) /\ i \in 1 .. Len(a) + Len(b)
          BY <2>8, <2>9, <3>2, <4>1
        <5>2. QED
          BY <2>9, <3>1, <4>1, <5>1
      <4>2. CASE ~(i < k)
        <5>1. /\ ~(i <= Len(a)) /\ i \in 1 .. Len(a) + Len(b)
              /\ i - Len(a) \in 1 .. n - k /\ k + (i - Len(a)) = i + 1
          BY <2>8, <2>9, <3>2, <4>2, SMTT(60)
        <5>2. QED
          BY <2>10, <3>1, <4>2, <5>1
      <4>3. QED
        BY <4>1, <4>2
    <3>4. Len(u) = n - 1 /\ DOMAIN u = 1 .. n - 1
      BY <3>1, <3>2
    <3>5. QED
      BY <3>1, <3>3, <3>4
  <2> HIDE DEF u
  <2> DEFINE at2(i) == IF i < k THEN i ELSE i + 1
  <2>12. /\ \A i \in 1 .. n - 1 : at2(i) \in 1 .. n /\ at2(i) # k
         /\ \A i, j \in 1 .. n - 1 : at2(i) = at2(j) => i = j
         /\ \A m \in 1 .. n : m # k => \E i \in 1 .. n - 1 : at2(i) = m
    <3>1. ASSUME NEW m \in 1 .. n, m # k
          PROVE  \E i \in 1 .. n - 1 : at2(i) = m
      <4>1. CASE m < k
        <5>1. m \in 1 .. n - 1
          BY <2>8, <4>1
        <5>2. at2(m) = m
          BY <4>1
        <5>3. QED
          BY <5>1, <5>2
      <4>2. CASE ~(m < k)
        <5>1. m - 1 \in 1 .. n - 1 /\ ~(m - 1 < k) /\ m - 1 + 1 = m
          BY <2>8, <3>1, <4>2
        <5>2. at2(m - 1) = m
          BY <5>1
        <5>3. QED
          BY <5>1, <5>2
      <4>3. QED
        BY <4>1, <4>2
    <3>2. QED
      BY <2>8, <3>1
  <2>13. \A i \in 1 .. n - 1 : u[i] = listed[at2(i)]
    BY <2>11
  <2> HIDE DEF at2
  <2>14. \A i, j \in 1 .. n - 1 : u[i] = u[j] => i = j
    <3>1. \A i, j \in 1 .. n - 1 : listed[at2(i)] = listed[at2(j)] => at2(i) = at2(j)
      BY <2>12
    <3>2. QED
      BY <2>12, <2>13, <3>1
  <2>15. ToSet(u) = ToSet(listed) \ {obj}
    <3>1. ToSet(u) = {u[i] : i \in 1 .. n - 1}
      BY <2>11 DEF ToSet
    <3>2. ASSUME NEW y
          PROVE  y \in ToSet(u) <=> y \in ToSet(listed) /\ y # obj
      <4>1. ASSUME y \in ToSet(u)
            PROVE  y \in ToSet(listed) /\ y # obj
        <5>1. PICK i \in 1 .. n - 1 : y = u[i]
          BY <3>1, <4>1
        <5>2. y = listed[at2(i)] /\ at2(i) \in 1 .. n /\ at2(i) # k
          BY <2>12, <2>13, <5>1
        <5>3. QED
          BY <1>2, <2>2, <5>2
      <4>2. ASSUME y \in ToSet(listed), y # obj
            PROVE  y \in ToSet(u)
        <5>1. PICK m \in 1 .. n : y = listed[m]
          BY <1>2, <4>2
        <5>2. m # k
          BY <2>1, <4>2, <5>1
        <5>3. PICK i \in 1 .. n - 1 : at2(i) = m
          BY <2>12, <5>2
        <5>4. y = u[i]
          BY <2>13, <5>1, <5>3
        <5>5. QED
          BY <3>1, <5>4
      <4>3. QED
        BY <4>1, <4>2
    <3>3. QED
      BY <3>2
  <2>16. Len(u) = n - 1 /\ u \in Seq(Containers)
    BY <2>11
  <2>17. QED
    BY <2>7, <2>14, <2>15, <2>16
<1>5. QED
  BY <1>3, <1>4

\* A call that lists its container.
LEMMA ListMore ==
  ASSUME NEW list \in Seq(Containers), NEW w \in Seq(Containers), NEW lst \in Seq(Containers),
         NEW obj \in Containers, ListOf(list, w, lst), obj \notin ToSet(list)
  PROVE  ListOf(Append(list, obj), Append(w, obj), lst)
<1> DEFINE n == Len(list)
           more == Append(list, obj)
<1>1. /\ n \in Nat /\ Len(more) = n + 1 /\ DOMAIN list = 1 .. n /\ DOMAIN more = 1 .. n + 1
      /\ more[n + 1] = obj /\ \A i \in 1 .. n : more[i] = list[i]
      /\ \A i \in 1 .. n + 1 : i \in 1 .. n \/ i = n + 1
      /\ \A i \in 1 .. n : i \in 1 .. n + 1
      /\ n + 1 \in 1 .. n + 1
  OBVIOUS
<1>2. \A i, j \in 1 .. n : list[i] = list[j] => i = j
  BY DEF ListOf
<1> HIDE DEF n, more
<1>3. /\ ToSet(list) = {list[i] : i \in 1 .. n}
      /\ ToSet(more) = {more[i] : i \in 1 .. n + 1}
  BY <1>1 DEF ToSet
<1>4. ToSet(more) = ToSet(list) \cup {obj}
  <2>1. ASSUME NEW x
        PROVE  x \in ToSet(more) <=> x \in ToSet(list) \/ x = obj
    BY <1>1, <1>3
  <2>2. QED
    BY <2>1
<1>5. \A i \in 1 .. n : list[i] # obj
  BY <1>3
<1>6. \A i, j \in 1 .. n + 1 : more[i] = more[j] => i = j
  BY <1>1, <1>2, <1>5
<1>7. ASSUME NEW x \in Containers
      PROVE  /\ x \in ToSet(more) => Times(x, Append(w, obj)) > 0
             /\ Times(x, Append(w, obj)) <= Times(x, lst) + (IF x \in ToSet(more) THEN 1 ELSE 0)
  <2> DEFINE t == Times(x, w)
             m == Times(x, lst)
             t2 == Times(x, Append(w, obj))
  <2>1. t \in Nat /\ m \in Nat /\ t2 = t + (IF obj = x THEN 1 ELSE 0)
    BY TimesIs, TimesAppend
  <2>2. /\ x \in ToSet(list) => t > 0
        /\ t <= m + (IF x \in ToSet(list) THEN 1 ELSE 0)
    BY DEF ListOf
  <2> HIDE DEF t, m, t2
  <2>3. (x \in ToSet(more) <=> x \in ToSet(list) \/ x = obj) /\ obj \notin ToSet(list)
    BY <1>4
  <2>4. CASE x = obj
    <3>1. x \notin ToSet(list) /\ x \in ToSet(more)
      BY <2>3, <2>4
    <3>2. t <= m /\ t2 = t + 1
      BY <2>1, <2>2, <2>4, <3>1
    <3>3. t2 > 0 /\ t2 <= m + 1
      BY <2>1, <3>2
    <3>4. QED
      BY <3>1, <3>3 DEF t, m, t2
  <2>5. CASE x # obj
    <3>1. (x \in ToSet(list) <=> x \in ToSet(more)) /\ t2 = t
      BY <2>1, <2>3, <2>5
    <3>2. QED
      BY <2>2, <3>1 DEF t, m, t2
  <2>6. QED
    BY <2>4, <2>5
<1>8. ListOf(more, Append(w, obj), lst)
  BY <1>1, <1>6, <1>7 DEF ListOf
<1>9. QED
  BY <1>8 DEF more

\* A call that does not.
LEMMA ListLost ==
  ASSUME NEW list, NEW w \in Seq(Containers), NEW lst \in Seq(Containers),
         NEW obj \in Containers, ListOf(list, w, lst)
  PROVE  ListOf(list, Append(w, obj), Append(lst, obj))
<1>1. ASSUME NEW x \in Containers
      PROVE  /\ x \in ToSet(list) => Times(x, Append(w, obj)) > 0
             /\ Times(x, Append(w, obj))
                  <= Times(x, Append(lst, obj)) + (IF x \in ToSet(list) THEN 1 ELSE 0)
  <2> DEFINE t == Times(x, w)
             m == Times(x, lst)
             t2 == Times(x, Append(w, obj))
             m2 == Times(x, Append(lst, obj))
  <2>1. /\ t \in Nat /\ m \in Nat
        /\ t2 = t + (IF obj = x THEN 1 ELSE 0) /\ m2 = m + (IF obj = x THEN 1 ELSE 0)
    BY TimesIs, TimesAppend
  <2>2. /\ x \in ToSet(list) => t > 0
        /\ t <= m + (IF x \in ToSet(list) THEN 1 ELSE 0)
    BY DEF ListOf
  <2> HIDE DEF t, m, t2, m2
  <2>3. /\ x \in ToSet(list) => t2 > 0
        /\ t2 <= m2 + (IF x \in ToSet(list) THEN 1 ELSE 0)
    BY <2>1, <2>2
  <2>4. QED
    BY <2>3 DEF t2, m2
<1>2. QED
  BY <1>1 DEF ListOf

LEMMA CallReprKeeps ==
  ASSUME ReprInv, NEW obj \in Containers, NEW below \in Seq(ReprFrames),
         ObjsOf(below) = ObjsOf(reprs), CallRepr(obj, below), inside' = inside
  PROVE  ReprInv'
<1> DEFINE f == [obj |-> obj, todo |-> inside[obj]]
<1>1. /\ inside \in [Containers -> SUBSET Containers] /\ reprs \in Seq(ReprFrames)
      /\ listed \in Seq(Containers) /\ lost \in Seq(Containers) /\ raised \in BOOLEAN
      /\ ListOf(listed, ObjsOf(reprs), lost)
  BY DEF ReprInv, ReprShape, ListInv
<1>2. f \in ReprFrames /\ f.obj = obj
  BY <1>1 DEF ReprFrames
<1> HIDE DEF f
<1> DEFINE w == ObjsOf(reprs)
<1>3. /\ w \in Seq(Containers) /\ Append(below, f) \in Seq(ReprFrames)
      /\ ObjsOf(Append(below, f)) = Append(w, obj)
  BY <1>2, WrittenAppend
<1>4. CASE /\ ~Found(obj) /\ reprs' = Append(below, f) /\ listed' = Append(listed, obj)
           /\ lost' = lost /\ raised' = raised
  <2>1. ListOf(Append(listed, obj), Append(w, obj), lost)
    BY <1>1, <1>3, <1>4, ListMore DEF Found
  <2>2. ListInv'
    BY <1>3, <1>4, <2>1, Zenon DEF ListInv
  <2>3. ReprShape'
    BY <1>1, <1>3, <1>4 DEF ReprShape
  <2>4. QED
    BY <2>2, <2>3 DEF ReprInv
<1>5. CASE /\ reprs' = Append(below, f) /\ lost' = Append(lost, obj)
           /\ listed' = listed /\ raised' = raised
  <2>1. ListOf(listed, Append(w, obj), Append(lost, obj))
    BY <1>1, <1>3, ListLost
  <2>2. ListInv'
    BY <1>3, <1>5, <2>1, Zenon DEF ListInv
  <2>3. ReprShape'
    BY <1>1, <1>3, <1>5 DEF ReprShape
  <2>4. QED
    BY <2>2, <2>3 DEF ReprInv
<1>6. CASE reprs' = below /\ listed' = listed /\ lost' = lost /\ raised' \in BOOLEAN
  <2>1. ListInv'
    BY <1>1, <1>6, Zenon DEF ListInv
  <2>2. ReprShape'
    BY <1>1, <1>6 DEF ReprShape
  <2>3. QED
    BY <2>1, <2>2 DEF ReprInv
<1>7. QED
  BY <1>1, <1>4, <1>5, <1>6 DEF CallRepr, f

LEMMA LeaveReprKeeps ==
  ASSUME ReprInv, LeaveRepr
  PROVE  ReprInv'
<1> DEFINE obj == Last(reprs).obj
           w == ObjsOf(Front(reprs))
<1>1. /\ inside \in [Containers -> SUBSET Containers] /\ reprs \in Seq(ReprFrames)
      /\ listed \in Seq(Containers) /\ lost \in Seq(Containers) /\ raised \in BOOLEAN
      /\ ListOf(listed, ObjsOf(reprs), lost)
  BY DEF ReprInv, ReprShape, ListInv
<1>2. /\ reprs # <<>> /\ listed' = Unlisted(obj) /\ reprs' = Front(reprs)
      /\ raised' \in BOOLEAN /\ inside' = inside /\ lost' = lost
  BY <1>1 DEF LeaveRepr
<1>3. /\ Last(reprs) \in ReprFrames /\ Front(reprs) \in Seq(ReprFrames)
      /\ reprs = Append(Front(reprs), Last(reprs))
  BY <1>1, <1>2, ReprTopIs
<1>4. /\ w \in Seq(Containers) /\ obj \in Containers /\ ObjsOf(reprs) = Append(w, obj)
  <2>1. /\ w \in Seq(Containers) /\ obj \in Containers
        /\ ObjsOf(Append(Front(reprs), Last(reprs))) = Append(w, obj)
    BY <1>3, WrittenAppend
  <2>2. QED
    BY <1>3, <2>1, Zenon
<1>5. /\ \A i, j \in 1 .. Len(listed) : listed[i] = listed[j] => i = j
      /\ \A x \in Containers :
           /\ x \in ToSet(listed) => Times(x, ObjsOf(reprs)) > 0
           /\ Times(x, ObjsOf(reprs)) <= Times(x, lost) + (IF x \in ToSet(listed) THEN 1 ELSE 0)
  BY <1>1 DEF ListOf
<1>6. /\ listed' \in Seq(Containers)
      /\ \A i, j \in 1 .. Len(listed') : listed'[i] = listed'[j] => i = j
      /\ ToSet(listed') = ToSet(listed) \ {obj}
  BY <1>1, <1>2, <1>5, UnlistedIs
<1> HIDE DEF obj, w
<1>7. ASSUME NEW x \in Containers
      PROVE  /\ x \in ToSet(listed') => Times(x, w) > 0
             /\ Times(x, w) <= Times(x, lost) + (IF x \in ToSet(listed') THEN 1 ELSE 0)
  <2> DEFINE t == Times(x, w)
             m == Times(x, lost)
             t2 == Times(x, ObjsOf(reprs))
  <2>1. t \in Nat /\ m \in Nat /\ t2 = t + (IF obj = x THEN 1 ELSE 0)
    <3>1. t \in Nat
      BY <1>4, TimesIs
    <3>2. m \in Nat
      BY <1>1, TimesIs
    <3>3. Times(x, Append(w, obj)) = t + (IF obj = x THEN 1 ELSE 0)
      BY <1>4, TimesAppend
    <3>4. t2 = Times(x, Append(w, obj))
      BY <1>4, Zenon
    <3>5. QED
      BY <3>1, <3>2, <3>3, <3>4
  <2>2. /\ x \in ToSet(listed) => t2 > 0
        /\ t2 <= m + (IF x \in ToSet(listed) THEN 1 ELSE 0)
    BY <1>5
  <2>3. x \in ToSet(listed') <=> x \in ToSet(listed) /\ x # obj
    BY <1>6
  <2> HIDE DEF t, m, t2
  <2>4. CASE x = obj
    <3>1. x \notin ToSet(listed') /\ t2 = t + 1 /\ t2 <= m + 1
      BY <2>1, <2>2, <2>3, <2>4
    <3>2. t <= m
      BY <2>1, <3>1
    <3>3. QED
      BY <2>1, <3>1, <3>2 DEF t, m
  <2>5. CASE x # obj
    <3>1. (x \in ToSet(listed) <=> x \in ToSet(listed')) /\ t2 = t
      BY <2>1, <2>3, <2>5
    <3>2. QED
      BY <2>2, <3>1 DEF t, m
  <2>6. QED
    BY <2>4, <2>5
<1>8. ListOf(listed', w, lost)
  BY <1>6, <1>7 DEF ListOf
<1>9. ListInv'
  BY <1>2, <1>8, Zenon DEF ListInv, w
<1>10. ReprShape'
  BY <1>1, <1>2, <1>3, <1>6 DEF ReprShape
<1>11. QED
  BY <1>9, <1>10 DEF ReprInv

\* No call, and nothing listed or lost.
LEMMA NothingWritten ==
  /\ ObjsOf(<<>>) = <<>> /\ ListOf(<<>>, <<>>, <<>>)
  /\ \A list \in Seq(Containers) : ListOf(list, <<>>, lost) => list = <<>>
<1>1. ObjsOf(<<>>) = <<>>
  BY DEF ObjsOf
<1>2. <<>> \in Seq(Containers) /\ ToSet(<<>>) = {}
  BY DEF ToSet
<1>3. \A x : Times(x, <<>>) = 0
  <2>1. ASSUME NEW x
        PROVE  Times(x, <<>>) = 0
    <3>1. {i \in DOMAIN <<>> : <<>>[i] = x} = {}
      OBVIOUS
    <3>2. QED
      BY <3>1, FS_EmptySet, Zenon DEF Times
  <2>2. QED
    BY <2>1
<1>4. ListOf(<<>>, <<>>, <<>>)
  BY <1>2, <1>3 DEF ListOf
<1>5. ASSUME NEW list \in Seq(Containers), ListOf(list, <<>>, lost)
      PROVE  list = <<>>
  <2>1. \A x \in Containers : x \notin ToSet(list)
    BY <1>3, <1>5 DEF ListOf
  <2>2. \A i \in 1 .. Len(list) : list[i] \in Containers /\ list[i] \in ToSet(list)
    BY DEF ToSet
  <2>3. Len(list) \in Nat /\ (Len(list) > 0 => 1 \in 1 .. Len(list))
    OBVIOUS
  <2>4. Len(list) = 0
    BY <2>1, <2>2, <2>3
  <2>5. QED
    BY <2>4
<1>6. QED
  BY <1>1, <1>4, <1>5

LEMMA ReprInitInv == ReprInit => ReprInv
<1> SUFFICES ASSUME ReprInit PROVE ReprInv
  OBVIOUS
<1>1. /\ inside = [c \in Containers |-> {}] /\ reprs = <<>> /\ listed = <<>>
      /\ lost = <<>> /\ raised = FALSE
  BY DEF ReprInit
<1>2. ReprShape
  <2>1. inside \in [Containers -> SUBSET Containers] /\ raised \in BOOLEAN
    BY <1>1
  <2>2. reprs \in Seq(ReprFrames) /\ listed \in Seq(Containers) /\ lost \in Seq(Containers)
    BY <1>1
  <2>3. QED
    BY <2>1, <2>2 DEF ReprShape
<1>3. ListInv
  BY <1>1, NothingWritten DEF ListInv
<1>4. QED
  BY <1>2, <1>3 DEF ReprInv

LEMMA ReprNextInv == ReprInv /\ [ReprNext]_reprVars => ReprInv'
<1> SUFFICES ASSUME ReprInv, [ReprNext]_reprVars PROVE ReprInv'
  OBVIOUS
<1>1. /\ inside \in [Containers -> SUBSET Containers] /\ reprs \in Seq(ReprFrames)
      /\ listed \in Seq(Containers) /\ lost \in Seq(Containers) /\ raised \in BOOLEAN
      /\ ListOf(listed, ObjsOf(reprs), lost)
  BY DEF ReprInv, ReprShape, ListInv
<1>2. ASSUME NEW obj \in Containers, StartRepr(obj)
      PROVE  ReprInv'
  <2>1. reprs = <<>> /\ CallRepr(obj, <<>>) /\ inside' = inside /\ <<>> \in Seq(ReprFrames)
    BY <1>2 DEF StartRepr
  <2>2. ObjsOf(<<>>) = ObjsOf(reprs)
    BY <2>1
  <2>3. QED
    BY <2>1, <2>2, CallReprKeeps
<1>3. ASSUME NestedRepr
      PROVE  ReprInv'
  <2>1. reprs # <<>> /\ inside' = inside
    BY <1>3 DEF NestedRepr
  <2>2. PICK obj \in Last(reprs).todo :
          CallRepr(obj, [reprs EXCEPT ![Len(reprs)].todo = @ \ {obj}])
    BY <1>3 DEF NestedRepr
  <2>3. obj \in Containers
    BY <1>1, <2>1, <2>2, ReprTopIs DEF ReprFrames
  <2> DEFINE below == [reprs EXCEPT ![Len(reprs)].todo = @ \ {obj}]
  <2>4. below \in Seq(ReprFrames) /\ ObjsOf(below) = ObjsOf(reprs)
    BY <1>1, <2>1, WrittenSame
  <2>5. CallRepr(obj, below)
    BY <2>2
  <2> HIDE DEF below
  <2>6. QED
    BY <2>1, <2>3, <2>4, <2>5, CallReprKeeps
<1>4. ASSUME LeaveRepr
      PROVE  ReprInv'
  BY <1>4, LeaveReprKeeps
<1>5. ASSUME NEW obj \in Containers, NEW objs \in SUBSET Containers, Change(obj, objs)
      PROVE  ReprInv'
  <2>1. /\ reprs = <<>> /\ inside' = [inside EXCEPT ![obj] = objs] /\ lost' = <<>>
        /\ reprs' = reprs /\ listed' = listed /\ raised' = raised
    BY <1>5 DEF Change
  <2>2. inside' \in [Containers -> SUBSET Containers] /\ lost' \in Seq(Containers)
    BY <1>1, <2>1
  <2>3. ReprShape'
    BY <1>1, <2>1, <2>2 DEF ReprShape
  <2>4. listed = <<>>
    BY <1>1, <2>1, NothingWritten
  <2>5. ListInv'
    BY <2>1, <2>4, NothingWritten DEF ListInv
  <2>6. QED
    BY <2>3, <2>5 DEF ReprInv
<1>6. CASE UNCHANGED reprVars
  BY <1>6 DEF reprVars, ReprInv, ReprShape, ListInv
<1>7. QED
  BY <1>2, <1>3, <1>4, <1>5, <1>6, Zenon DEF ReprNext

\* What ReprInv says of each property.
LEMMA ReprInvShows == ReprInv => ReprBounded /\ ListIsCalls
<1> SUFFICES ASSUME ReprInv PROVE ReprBounded /\ ListIsCalls
  OBVIOUS
<1> DEFINE w == ObjsOf(reprs)
<1>1. /\ reprs \in Seq(ReprFrames) /\ listed \in Seq(Containers) /\ lost \in Seq(Containers)
      /\ ListOf(listed, w, lost)
  BY DEF ReprInv, ReprShape, ListInv
<1>2. w \in Seq(Containers) /\ DOMAIN w = DOMAIN reprs /\ \A i \in DOMAIN reprs : w[i] = reprs[i].obj
  <2>1. \A i \in DOMAIN reprs : reprs[i].obj \in Containers
    <3>1. \A i \in DOMAIN reprs : reprs[i] \in ReprFrames
      BY <1>1
    <3>2. QED
      BY <3>1 DEF ReprFrames
  <2>2. Len(reprs) \in Nat /\ DOMAIN reprs = 1 .. Len(reprs)
    BY <1>1
  <2>3. w = [i \in 1 .. Len(reprs) |-> reprs[i].obj]
    BY <2>2 DEF ObjsOf
  <2> HIDE DEF w
  <2>4. QED
    BY <2>1, <2>2, <2>3
<1> HIDE DEF w
<1>3. \A x \in Containers :
        /\ Times(x, w) \in Nat /\ Times(x, lost) \in Nat
        /\ Times(x, w) > 0 <=> \E i \in DOMAIN reprs : reprs[i].obj = x
        /\ Times(x, lost) > 0 <=> \E i \in DOMAIN lost : lost[i] = x
        /\ x \in ToSet(listed) => Times(x, w) > 0
        /\ Times(x, w) <= Times(x, lost) + (IF x \in ToSet(listed) THEN 1 ELSE 0)
  <2>1. ASSUME NEW x \in Containers
        PROVE  /\ Times(x, w) \in Nat
               /\ Times(x, w) > 0 <=> \E i \in DOMAIN reprs : reprs[i].obj = x
    <3>1. Times(x, w) \in Nat /\ (Times(x, w) > 0 <=> \E i \in DOMAIN w : w[i] = x)
      BY <1>2, TimesIs
    <3>2. QED
      BY <1>2, <3>1
  <2>2. ASSUME NEW x \in Containers
        PROVE  /\ Times(x, lost) \in Nat
               /\ Times(x, lost) > 0 <=> \E i \in DOMAIN lost : lost[i] = x
    BY <1>1, TimesIs
  <2>3. QED
    BY <1>1, <2>1, <2>2 DEF ListOf
<1>4. ReprBounded
  <2>1. ASSUME NEW x \in Containers
        PROVE  Times(x, w) <= 1 + Times(x, lost)
    <3> DEFINE t == Times(x, w)
               m == Times(x, lost)
    <3>1. t \in Nat /\ m \in Nat /\ t <= m + (IF x \in ToSet(listed) THEN 1 ELSE 0)
      BY <1>3
    <3> HIDE DEF t, m
    <3>2. t <= 1 + m
      BY <3>1
    <3>3. QED
      BY <3>2 DEF t, m
  <2>2. \A x \in Containers : Times(x, [i \in DOMAIN reprs |-> reprs[i].obj]) <= 1 + Times(x, lost)
    BY <2>1 DEF w, ObjsOf
  <2>3. QED
    BY <2>2, Zenon DEF ReprBounded, Times
<1>5. ListIsCalls
  <2>1. ASSUME NEW x \in ToSet(listed)
        PROVE  \E i \in DOMAIN reprs : reprs[i].obj = x
    <3>1. x \in Containers
      BY <1>1 DEF ToSet
    <3>2. QED
      BY <1>3, <3>1
  <2>2. ASSUME NEW i \in DOMAIN reprs, reprs[i].obj \notin ToSet(listed)
        PROVE  reprs[i].obj \in ToSet(lost)
    <3> DEFINE x == reprs[i].obj
    <3>1. x \in Containers
      <4>1. reprs[i] \in ReprFrames
        BY <1>1
      <4>2. QED
        BY <4>1 DEF ReprFrames
    <3> HIDE DEF x
    <3>2. Times(x, w) > 0
      BY <1>3, <3>1 DEF x
    <3>3. Times(x, lost) > 0
      <4> DEFINE t == Times(x, w)
                 m == Times(x, lost)
      <4>1. t \in Nat /\ m \in Nat /\ t > 0 /\ t <= m + (IF x \in ToSet(listed) THEN 1 ELSE 0)
        BY <1>3, <3>1, <3>2
      <4>2. x \notin ToSet(listed)
        BY <2>2 DEF x
      <4> HIDE DEF t, m
      <4>3. m > 0
        BY <4>1, <4>2
      <4>4. QED
        BY <4>3 DEF m
    <3>4. PICK k \in DOMAIN lost : lost[k] = x
      BY <1>3, <3>1, <3>3
    <3>5. x \in ToSet(lost)
      BY <1>1, <3>4 DEF ToSet
    <3>6. QED
      BY <3>5 DEF x
  <2>3. QED
    BY <2>1, <2>2 DEF ListIsCalls
<1>6. QED
  BY <1>4, <1>5

-----------------------------------------------------------------------------
(* Getting, setting and deleting one attribute.                            *)

AttrShape ==
  /\ layout \in [version : {"2.7", "3.3"}, slots : {"both", "get", "none"}, dict : BOOLEAN]
  /\ classDict \in [Classes -> Descriptors \cup {"absent"}]
  /\ instDict \in Values \cup {"NULL", "absent"}
  /\ stored \in Values \cup {"absent"}
  /\ running \in [f : {"none", "get", "set"}, descr : Descriptors \cup {"absent"},
                  value : Values \cup {"absent"}, held : BOOLEAN]
  /\ written \in Values \cup {"absent", "unknown"}

\* What a function that runs was called for.
CalledInv ==
  /\ running.f # "none" => got = "none"
  /\ running.f = "get" => running.held /\ HasGet(running.descr)
  /\ running.f = "get" /\ running.descr = "getonly" /\ written # "unknown" =>
       instDict \in {"NULL", "absent"}
  /\ running.f = "set" =>
       /\ layout.slots = "both" /\ IsData(running.descr)
       /\ running.held = (layout.version = "3.3")

\* Where the attribute is, as long as that is known: with the data descriptor
\* the class has, or in __dict__ if the class has none.
PlaceInv ==
  written # "unknown" =>
    /\ layout.slots = "both"
    /\ IF LookedUp = "data" THEN stored = written
       ELSE /\ ~ IsData(LookedUp)
            /\ instDict = written

AttrInv ==
  AttrShape /\ CalledInv /\ PlaceInv /\ ReadsWrites /\ DescrAlive /\ DirIsComplete

LEMMA AttrInitInv == AttrInit => AttrInv
<1> SUFFICES ASSUME AttrInit PROVE AttrInv
  OBVIOUS
<1>1. AttrShape
  BY DEF AttrInit, AttrShape, Descriptors, NotCalled
<1>2. CalledInv /\ PlaceInv
  BY DEF AttrInit, CalledInv, PlaceInv, NotCalled
<1>3. ReadsWrites /\ DescrAlive /\ DirIsComplete
  BY DEF AttrInit, ReadsWrites, DescrAlive, DirIsComplete, NotCalled
<1>4. QED
  BY <1>1, <1>2, <1>3 DEF AttrInv

\* What is found for the name is what some class has.
LEMMA LookedUpIs ==
  ASSUME AttrShape
  PROVE  /\ LookedUp \in Descriptors \cup {"absent"}
         /\ LookedUp # "absent" => \E c \in Classes : classDict[c] = LookedUp
<1> DEFINE having == {i \in 1 .. Len(Mro) : classDict[Mro[i]] # "absent"}
<1>1. LookedUp = IF having = {} THEN "absent" ELSE classDict[Mro[Min(having)]]
  BY Zenon DEF LookedUp
<1>2. having \in SUBSET Nat
  OBVIOUS
<1>3. \A i \in having : Mro[i] \in Classes
  BY AttributesAssumption
<1> HIDE DEF having
<1>4. having # {} => Min(having) \in having
  BY <1>2, Least DEF Min
<1>5. having # {} => Mro[Min(having)] \in Classes
  BY <1>3, <1>4
<1>6. QED
  BY <1>1, <1>5 DEF AttrShape

LEMMA SameLookUp == UNCHANGED classDict => UNCHANGED LookedUp
BY DEF LookedUp

\* dir() knows what any class has.
LEMMA ListedIf ==
  /\ instDict \notin {"NULL", "absent"} => Listed
  /\ (\E c \in Classes : classDict[c] # "absent") => Listed
BY AttributesAssumption DEF Listed, Merged

\* What getting finds when nothing has to be called, and who is called.
LEMMA GenericIs ==
  ASSUME AttrInv
  PROVE  /\ Generic(LookedUp) = "call" =>
              /\ HasGet(LookedUp) /\ LookedUp # "absent"
              /\ LookedUp = "getonly" => instDict \in {"NULL", "absent"}
         /\ Generic(LookedUp) # "call" => LookedUp # "data"
         /\ Generic(LookedUp) \notin {"call", "error"} =>
              \/ instDict \notin {"NULL", "absent"} /\ Generic(LookedUp) = instDict
              \/ /\ instDict \in {"NULL", "absent"}
                 /\ LookedUp \in {"setonly", "plain"} /\ Generic(LookedUp) = LookedUp
         /\ Generic(LookedUp) = "error" =>
              instDict \in {"NULL", "absent"} \/ instDict = "error"
<1>1. \A d \in Descriptors \cup {"absent"} :
        Generic(d) = IF d = "data" \/ (d = "getonly" /\ instDict \in {"NULL", "absent"}) THEN "call"
                     ELSE IF instDict \notin {"NULL", "absent"} THEN instDict
                     ELSE IF d \in {"setonly", "plain"} THEN d ELSE "error"
  <2>1. Descriptors \cup {"absent"} = {"data", "setonly", "getonly", "plain", "absent"}
    BY DEF Descriptors
  <2>2. HasGet("data") /\ HasGet("getonly") /\ IsData("data") /\ IsData("setonly")
    BY DEF HasGet, IsData
  <2>3. \A d \in {"setonly", "plain", "absent"} : ~ HasGet(d)
    BY DEF HasGet
  <2>4. \A d \in {"getonly", "plain", "absent"} : ~ IsData(d)
    BY DEF IsData
  <2>5. Generic("data") = "call"
    BY <2>2 DEF Generic
  <2>6. Generic("getonly") = IF instDict \in {"NULL", "absent"} THEN "call" ELSE instDict
    BY <2>2, <2>4 DEF Generic
  <2>7. Generic("setonly") = IF instDict \in {"NULL", "absent"} THEN "setonly" ELSE instDict
    BY <2>2, <2>3 DEF Generic
  <2>8. Generic("plain") = IF instDict \in {"NULL", "absent"} THEN "plain" ELSE instDict
    BY <2>3, <2>4 DEF Generic
  <2>9. Generic("absent") = IF instDict \in {"NULL", "absent"} THEN "error" ELSE instDict
    BY <2>3, <2>4 DEF Generic
  <2>10. QED
    BY <2>1, <2>5, <2>6, <2>7, <2>8, <2>9
<1>2. LookedUp \in Descriptors \cup {"absent"}
  BY LookedUpIs DEF AttrInv
<1>3. Generic(LookedUp) =
        IF LookedUp = "data" \/ (LookedUp = "getonly" /\ instDict \in {"NULL", "absent"})
        THEN "call"
        ELSE IF instDict \notin {"NULL", "absent"} THEN instDict
        ELSE IF LookedUp \in {"setonly", "plain"} THEN LookedUp ELSE "error"
  BY <1>1, <1>2
<1>4. instDict # "call"
  BY AttributesAssumption DEF Marks, AttrInv, AttrShape
<1>5. Generic(LookedUp) = "call" <=>
        LookedUp = "data" \/ (LookedUp = "getonly" /\ instDict \in {"NULL", "absent"})
  BY <1>3, <1>4
<1>6. HasGet(LookedUp) <=> LookedUp \in {"data", "getonly"}
  BY DEF HasGet
<1>7. QED
  BY <1>3, <1>5, <1>6

\* What is found without a call was written, as far as that is known.
LEMMA FoundIsWritten ==
  ASSUME AttrInv, written # "unknown", Generic(LookedUp) # "call"
  PROVE  IF written # "absent" THEN Generic(LookedUp) = written
         ELSE Generic(LookedUp) \notin Values
<1>1. instDict = written /\ ~ IsData(LookedUp)
  BY GenericIs DEF AttrInv, PlaceInv
<1>2. written \in Values \cup {"absent"}
  BY DEF AttrInv, AttrShape
<1>3. \A v \in Values : v \notin {"NULL", "absent", "error", "plain", "setonly"}
  BY AttributesAssumption DEF Marks
<1>4. CASE Generic(LookedUp) = "error"
  BY <1>1, <1>2, <1>3, <1>4, GenericIs
<1>5. CASE Generic(LookedUp) # "error"
  BY <1>1, <1>2, <1>3, <1>5, GenericIs
<1>6. QED
  BY <1>4, <1>5

LEMMA GetAttrInv ==
  ASSUME AttrInv, NEW name, GetAttr(name)
  PROVE  AttrInv'
<1> DEFINE found == IF layout.slots = "none" THEN "error" ELSE Generic(LookedUp)
           asks == name \in Names(layout.version) /\ found = "call"
<1>1. /\ AttrShape /\ CalledInv /\ PlaceInv /\ DescrAlive /\ running.f = "none"
      /\ UNCHANGED <<layout, classDict, instDict, stored, written>> /\ UNCHANGED LookedUp
  BY SameLookUp DEF AttrInv, GetAttr
<1>2. \/ /\ asks /\ got' = "none"
         /\ running' = [f |-> "get", descr |-> LookedUp, value |-> "absent", held |-> TRUE]
      \/ /\ ~asks /\ UNCHANGED running
         /\ got' = "misnamed" \/ (got' = found /\ found # "call")
  BY DEF GetAttr
<1>3. /\ found = "error" \/ found = Generic(LookedUp)
      /\ found = "call" => found = Generic(LookedUp)
      /\ layout.slots = "both" => found = Generic(LookedUp)
  OBVIOUS
<1> HIDE DEF found
<1>4. LookedUp \in Descriptors \cup {"absent"}
  BY <1>1, LookedUpIs
<1>5. asks => /\ HasGet(LookedUp) /\ LookedUp # "absent"
              /\ LookedUp = "getonly" => instDict \in {"NULL", "absent"}
  BY <1>3, GenericIs
<1>6. AttrShape'
  <2>1. running' \in [f : {"none", "get", "set"}, descr : Descriptors \cup {"absent"},
                     value : Values \cup {"absent"}, held : BOOLEAN]
    <3>1. CASE UNCHANGED running
      BY <1>1, <3>1 DEF AttrShape
    <3>2. CASE running' = [f |-> "get", descr |-> LookedUp, value |-> "absent", held |-> TRUE]
      BY <1>4, <3>2
    <3>3. QED
      BY <1>2, <3>1, <3>2
  <2>2. QED
    BY <1>1, <2>1 DEF AttrShape
<1>7. CalledInv'
  BY <1>1, <1>2, <1>5 DEF CalledInv
<1>8. PlaceInv'
  BY <1>1, Zenon DEF PlaceInv
<1>9. DescrAlive'
  BY <1>1, <1>2 DEF DescrAlive
<1>10. CASE got' \in {"none", "misnamed"}
  BY <1>6, <1>7, <1>8, <1>9, <1>10 DEF AttrInv, ReadsWrites, DirIsComplete
<1>11. CASE got' = found /\ found # "call"
  <2>1. ReadsWrites'
    <3>1. written # "unknown" => layout.slots = "both"
      BY <1>1 DEF PlaceInv
    <3>2. QED
      BY <1>1, <1>3, <1>11, <3>1, FoundIsWritten DEF ReadsWrites
  <2>2. DirIsComplete'
    <3>1. CASE found = "error"
      BY <1>11, <3>1 DEF DirIsComplete
    <3>2. CASE found # "error"
      <4>1. instDict \notin {"NULL", "absent"} \/ LookedUp # "absent"
        BY <1>3, <1>11, <3>2, GenericIs
      <4>2. instDict' \notin {"NULL", "absent"} \/ \E c \in Classes : classDict'[c] # "absent"
        BY <1>1, <4>1, LookedUpIs
      <4>3. Listed'
        BY <4>2, AttributesAssumption DEF Listed, Merged
      <4>4. QED
        BY <4>3 DEF DirIsComplete
    <3>3. QED
      BY <3>1, <3>2
  <2>3. QED
    BY <1>6, <1>7, <1>8, <1>9, <2>1, <2>2 DEF AttrInv
<1>12. QED
  BY <1>2, <1>10, <1>11

\* A step that gets nothing leaves nothing to be said of what was got.
LEMMA NothingGot == got' = "none" => ReadsWrites' /\ DirIsComplete'
BY DEF ReadsWrites, DirIsComplete

\* What becomes of the dictionary.
LEMMA SetInDictIs ==
  ASSUME AttrInv, NEW value \in Values \cup {"absent"}, SetInDict(value)
  PROVE  \/ instDict' = value /\ written' = value
         \/ /\ UNCHANGED written
            /\ instDict' \in Values \cup {"NULL", "absent"}
            /\ instDict' # instDict => instDict = "NULL"
BY DEF SetInDict, AttrInv, AttrShape

LEMMA SetAttrInv ==
  ASSUME AttrInv, NEW name, NEW value \in Values \cup {"absent"}, SetAttr(name, value)
  PROVE  AttrInv'
<1>1. /\ AttrShape /\ CalledInv /\ PlaceInv /\ DescrAlive /\ running.f = "none" /\ got' = "none"
      /\ UNCHANGED <<layout, classDict, stored>> /\ UNCHANGED LookedUp
  BY SameLookUp DEF AttrInv, SetAttr
<1>2. LookedUp \in Descriptors \cup {"absent"}
  BY <1>1, LookedUpIs
<1>3. ReadsWrites' /\ DirIsComplete'
  BY <1>1, NothingGot
<1>4. CASE UNCHANGED <<instDict, running, written>>
  <2>1. AttrShape' /\ CalledInv' /\ DescrAlive'
    BY <1>1, <1>4 DEF AttrShape, CalledInv, DescrAlive
  <2>2. PlaceInv'
    BY <1>1, <1>4, Zenon DEF PlaceInv
  <2>3. QED
    BY <1>3, <2>1, <2>2 DEF AttrInv
<1>5. CASE layout.slots = "both" /\ ~ IsData(LookedUp) /\ SetInDict(value) /\ UNCHANGED running
  <2>1. instDict' \in Values \cup {"NULL", "absent"} /\ written' \in Values \cup {"absent", "unknown"}
    BY <1>1, <1>5, SetInDictIs DEF AttrShape
  <2>2. AttrShape'
    BY <1>1, <1>5, <2>1 DEF AttrShape
  <2>3. CalledInv' /\ DescrAlive'
    BY <1>1, <1>5 DEF CalledInv, DescrAlive
  <2>4. LookedUp # "data"
    BY <1>5 DEF IsData
  <2>5. written' # "unknown" => instDict' = written'
    BY <1>1, <1>5, <2>4, SetInDictIs, AttributesAssumption DEF PlaceInv, AttrShape, Marks
  <2>6. PlaceInv'
    BY <1>1, <1>5, <2>4, <2>5, Zenon DEF PlaceInv
  <2>7. QED
    BY <1>3, <2>2, <2>3, <2>6 DEF AttrInv
<1>6. CASE /\ layout.slots = "both" /\ IsData(LookedUp) /\ UNCHANGED <<instDict, written>>
           /\ running' = [f |-> "set", descr |-> LookedUp, value |-> value,
                          held |-> layout.version = "3.3"]
  <2>1. LookedUp \in Descriptors /\ \E c \in Classes : classDict[c] = LookedUp
    BY <1>1, <1>2, <1>6, LookedUpIs DEF IsData
  <2>2. AttrShape'
    BY <1>1, <1>6, <2>1 DEF AttrShape
  <2>3. CalledInv'
    <3>1. /\ running'.f = "set" /\ IsData(running'.descr)
          /\ running'.held = (layout'.version = "3.3")
      BY <1>1, <1>6
    <3>2. QED
      BY <1>1, <1>6, <3>1 DEF CalledInv
  <2>4. DescrAlive'
    BY <1>1, <1>6, <2>1 DEF DescrAlive
  <2>5. PlaceInv'
    BY <1>1, <1>6, Zenon DEF PlaceInv
  <2>6. QED
    BY <1>3, <2>2, <2>3, <2>4, <2>5 DEF AttrInv
<1>7. QED
  BY <1>1, <1>4, <1>5, <1>6 DEF SetAttr, GenericSet, Held

LEMMA SetDictInv ==
  ASSUME AttrInv, NEW value \in Values \cup {"absent"}, SetDict(value)
  PROVE  AttrInv'
<1>1. /\ AttrShape /\ CalledInv /\ DescrAlive /\ running.f = "none" /\ got' = "none"
      /\ UNCHANGED <<layout, classDict, stored, running>>
      /\ instDict' = value /\ written' = "unknown"
  BY DEF AttrInv, SetDict
<1>2. AttrShape' /\ CalledInv' /\ DescrAlive' /\ PlaceInv'
  BY <1>1 DEF AttrShape, CalledInv, DescrAlive, PlaceInv
<1>3. QED
  BY <1>1, <1>2, NothingGot DEF AttrInv

\* The function of a descriptor gets, or sets, or raises an exception.
LEMMA DescrReturnsInv ==
  ASSUME AttrInv, DescrReturns
  PROVE  AttrInv'
<1>1. /\ AttrShape /\ CalledInv /\ PlaceInv /\ running.f # "none"
      /\ running' = NotCalled
      /\ UNCHANGED <<layout, classDict, instDict>> /\ UNCHANGED LookedUp
  BY SameLookUp DEF AttrInv, DescrReturns
<1>2. CalledInv' /\ DescrAlive'
  BY <1>1 DEF CalledInv, DescrAlive, NotCalled
<1>3. running' \in [f : {"none", "get", "set"}, descr : Descriptors \cup {"absent"},
                    value : Values \cup {"absent"}, held : BOOLEAN]
  BY <1>1 DEF NotCalled
<1>4. CASE /\ running.f = "get" /\ UNCHANGED <<stored, written>>
           /\ got' = IF LookedUp # running.descr THEN "none"
                     ELSE IF LookedUp = "getonly" THEN "computed"
                     ELSE IF stored = "absent" THEN "error" ELSE stored
  <2>1. AttrShape'
    BY <1>1, <1>3, <1>4 DEF AttrShape
  <2>2. PlaceInv'
    BY <1>1, <1>4, Zenon DEF PlaceInv
  <2>3. CASE got' = "none"
    BY <1>2, <2>1, <2>2, <2>3, NothingGot DEF AttrInv
  <2>4. CASE LookedUp = running.descr
    <3>1. HasGet(LookedUp)
      BY <1>1, <1>4, <2>4 DEF CalledInv
    <3>2. \A v \in Values \cup {"absent"} : v \notin {"computed", "unknown"}
      BY AttributesAssumption DEF Marks
    <3>3. "absent" \notin Values /\ "error" \notin Values /\ "computed" \notin Values
      BY AttributesAssumption DEF Marks
    <3>4. ReadsWrites'
      <4>1. CASE LookedUp = "getonly"
        <5>1. got' = "computed"
          BY <1>4, <2>4, <4>1
        <5>2. written # "unknown" => written = "absent"
          BY <1>1, <1>4, <2>4, <3>3, <4>1, AttributesAssumption
             DEF CalledInv, PlaceInv, AttrShape, Marks
        <5>3. QED
          BY <1>4, <3>3, <5>1, <5>2 DEF ReadsWrites
      <4>2. CASE LookedUp # "getonly"
        <5>1. LookedUp = "data"
          BY <3>1, <4>2 DEF HasGet
        <5>2. written # "unknown" => stored = written
          BY <1>1, <5>1 DEF PlaceInv
        <5>3. got' = IF stored = "absent" THEN "error" ELSE stored
          BY <1>4, <2>4, <4>2
        <5>4. QED
          BY <1>4, <3>3, <5>2, <5>3 DEF ReadsWrites
      <4>3. QED
        BY <4>1, <4>2
    <3>5. DirIsComplete'
      <4>1. \E c \in Classes : classDict'[c] # "absent"
        BY <1>1, <3>1, LookedUpIs DEF HasGet
      <4>2. Listed'
        BY <4>1, AttributesAssumption DEF Listed, Merged
      <4>3. QED
        BY <4>2 DEF DirIsComplete
    <3>6. QED
      BY <1>2, <2>1, <2>2, <3>4, <3>5 DEF AttrInv
  <2>5. QED
    BY <1>4, <2>3, <2>4
<1>5. CASE /\ running.f = "set" /\ stored' = running.value /\ got' = "none"
           /\ written' = IF running.descr = "data" /\ LookedUp = "data"
                         THEN running.value ELSE "unknown"
  <2>1. running.value \in Values \cup {"absent"}
    BY <1>1 DEF AttrShape
  <2>2. AttrShape'
    BY <1>1, <1>3, <1>5, <2>1 DEF AttrShape
  <2>3. written' # "unknown" => layout.slots = "both" /\ LookedUp = "data" /\ stored' = written'
    BY <1>1, <1>5 DEF CalledInv
  <2>4. PlaceInv'
    BY <1>1, <2>3, Zenon DEF PlaceInv
  <2>5. QED
    BY <1>2, <1>5, <2>2, <2>4, NothingGot DEF AttrInv
<1>6. CASE UNCHANGED <<stored, written>> /\ got' \in {"raised", "none"}
  <2>1. AttrShape'
    BY <1>1, <1>3, <1>6 DEF AttrShape
  <2>2. PlaceInv'
    BY <1>1, <1>6, Zenon DEF PlaceInv
  <2>3. ReadsWrites' /\ DirIsComplete'
    BY <1>6 DEF ReadsWrites, DirIsComplete
  <2>4. QED
    BY <1>2, <2>1, <2>2, <2>3 DEF AttrInv
<1>7. QED
  BY <1>4, <1>5, <1>6 DEF DescrReturns

\* Classes change at any time: a descriptor that runs is held, unless it is that
\* of a setattr() in Python 2.7.
LEMMA ChangeClassInv ==
  ASSUME AttrInv, NEW class \in Classes, NEW descr \in Descriptors \cup {"absent"},
         ChangeClass(class, descr)
  PROVE  AttrInv'
<1>1. /\ AttrShape /\ CalledInv /\ DescrAlive /\ got' = "none" /\ written' = "unknown"
      /\ UNCHANGED <<layout, instDict, stored, running>>
      /\ classDict' = [classDict EXCEPT ![class] = descr]
  BY DEF AttrInv, ChangeClass
<1>2. /\ classDict' \in [Classes -> Descriptors \cup {"absent"}]
      /\ classDict'[class] = descr
      /\ \A c \in Classes \ {class} : classDict'[c] = classDict[c]
  BY <1>1 DEF AttrShape
<1>3. AttrShape' /\ CalledInv' /\ PlaceInv'
  BY <1>1, <1>2 DEF AttrShape, CalledInv, PlaceInv
<1>4. DescrAlive'
  <2>1. /\ running'.f = "set" => running'.held \/ layout'.version = "2.7"
        /\ running'.f = "get" => running'.held
    BY <1>1 DEF CalledInv, AttrShape
  <2>2. running'.f \in {"none", "get", "set"}
    BY <1>1 DEF AttrShape
  <2>3. QED
    BY <2>1, <2>2, Zenon DEF DescrAlive
<1>5. QED
  BY <1>1, <1>3, <1>4, NothingGot DEF AttrInv

LEMMA AttrNextInv == AttrInv /\ [AttrNext]_attrVars => AttrInv'
<1> SUFFICES ASSUME AttrInv, [AttrNext]_attrVars PROVE AttrInv'
  OBVIOUS
<1>1. CASE AttrNext
  BY <1>1, GetAttrInv, SetAttrInv, SetDictInv, DescrReturnsInv, ChangeClassInv DEF AttrNext
<1>2. CASE UNCHANGED attrVars
  <2>1. /\ UNCHANGED <<layout, classDict, instDict, stored, running, got, written>>
        /\ UNCHANGED LookedUp
    BY <1>2, SameLookUp DEF attrVars
  <2>2. AttrShape' /\ CalledInv' /\ DescrAlive' /\ ReadsWrites'
    BY <2>1 DEF AttrInv, AttrShape, CalledInv, DescrAlive, ReadsWrites
  <2>3. PlaceInv'
    BY <2>1, Zenon DEF AttrInv, PlaceInv
  <2>4. DirIsComplete'
    BY <2>1 DEF AttrInv, DirIsComplete, Listed, Merged
  <2>5. QED
    BY <2>2, <2>3, <2>4 DEF AttrInv
<1>3. QED
  BY <1>1, <1>2

-----------------------------------------------------------------------------
(* Comparing two objects.                                                  *)

Objects3 == [addr : Nat, key : Nat, type : TypeRecords]

\* Objects that can be compared: told apart by their addresses, their types by
\* theirs, and None by its type.
Peers(v, w) ==
  /\ v \in Objects3 /\ w \in Objects3
  /\ v.addr = w.addr <=> v = w
  /\ v.type.id = w.type.id <=> v.type = w.type
  /\ v.type.old /\ w.type.old => v.type = w.type
  /\ v = None <=> v.type = None.type
  /\ w = None <=> w.type = None.type

CompareInv ==
  \A i, j \in DOMAIN compared :
    Peers(compared[i], compared[j]) /\ (compared[i] = compared[j] <=> i = j)

LEMMA NoneIs ==
  /\ None \in Objects3
  /\ None.addr = 0 /\ None.key = 0 /\ None.type.id = 0 /\ ~None.type.old
BY DEF None, Objects3, TypeRecords

LEMMA PeersReversed == \A v, w : Peers(v, w) => Peers(w, v) /\ Peers(v, v) /\ Peers(w, w)
BY DEF Peers

\* An object that is picked.
LEMMA PickedIs ==
  ASSUME NEW n \in Nat, n # 0, NEW k \in Nat,
         NEW t \in TypesA \cup TypesB \cup TypesC
  PROVE  /\ Object(n, k, t) \in Objects3
         /\ Object(n, k, t).addr = n /\ Object(n, k, t).type = t
         /\ Object(n, k, t) # None /\ Peers(Object(n, k, t), None)
         /\ Peers(Object(n, k, t), Object(n, k, t))
<1> DEFINE x == Object(n, k, t)
<1>1. t \in TypeRecords /\ t.id # 0
  BY ComparisonAssumption
<1>2. x \in Objects3 /\ x.addr = n /\ x.type = t
  BY <1>1 DEF Object, Objects3
<1> HIDE DEF x
<1>3. t # None.type /\ x # None
  BY <1>1, <1>2, NoneIs
<1>4. QED
  BY <1>1, <1>2, <1>3, NoneIs DEF Peers, x

\* Two of them.
LEMMA PickedArePeers ==
  ASSUME NEW m \in Nat, m # 0, NEW n \in Nat, n # 0, m # n, NEW k \in Nat, NEW l \in Nat,
         NEW s \in TypesA \cup TypesB \cup TypesC, NEW t \in TypesA \cup TypesB \cup TypesC,
         OneEach(s, t)
  PROVE  /\ Peers(Object(m, k, s), Object(n, l, t)) /\ Peers(Object(n, l, t), Object(m, k, s))
         /\ Object(m, k, s) # Object(n, l, t)
<1> DEFINE x == Object(m, k, s)
           y == Object(n, l, t)
<1>1. /\ x \in Objects3 /\ x.addr = m /\ x.type = s /\ x # None /\ Peers(x, None)
      /\ y \in Objects3 /\ y.addr = n /\ y.type = t /\ y # None /\ Peers(y, None)
  BY PickedIs
<1> HIDE DEF x, y
<1>2. x # y
  BY <1>1
<1>3. Peers(x, y)
  BY <1>1, <1>2 DEF Peers, OneEach
<1>4. QED
  BY <1>2, <1>3, PeersReversed DEF x, y

LEMMA ComparePickInv == ComparePick => CompareInv'
<1> SUFFICES ASSUME ComparePick PROVE CompareInv'
  OBVIOUS
<1>1. ASSUME NEW a \in TypesA, NEW b \in TypesB, NEW same \in BOOLEAN,
             NEW k \in Keys, NEW l \in Keys,
             compared' = <<Object(1, k, a), Object(2, l, IF same THEN a ELSE b), None>>
      PROVE  CompareInv'
  <2>1. PICK t : t = IF same THEN a ELSE b
    OBVIOUS
  <2>2. /\ a \in TypesA \cup TypesB \cup TypesC /\ t \in TypesA \cup TypesB \cup TypesC
        /\ k \in Nat /\ l \in Nat /\ OneEach(a, t)
    BY <2>1, ComparisonAssumption DEF OneEach
  <2>3. PICK x : x = Object(1, k, a)
    OBVIOUS
  <2>4. PICK y : y = Object(2, l, t)
    OBVIOUS
  <2>5. Peers(x, y) /\ Peers(y, x) /\ x # y
    BY <2>2, <2>3, <2>4, PickedArePeers
  <2>6. /\ Peers(x, None) /\ Peers(x, x) /\ x # None
        /\ Peers(y, None) /\ Peers(y, y) /\ y # None
    BY <2>2, <2>3, <2>4, PickedIs
  <2>7. Peers(None, x) /\ Peers(None, y) /\ Peers(None, None)
    BY <2>6, PeersReversed
  <2>8. compared' = <<x, y, None>>
    BY <1>1, <2>1, <2>3, <2>4
  <2>9. /\ DOMAIN compared' = {1, 2, 3}
        /\ compared'[1] = x /\ compared'[2] = y /\ compared'[3] = None
    BY <2>8
  <2>10. QED
    BY <2>5, <2>6, <2>7, <2>9 DEF CompareInv
<1>2. ASSUME NEW a \in TypesC, NEW b \in TypesC, NEW c \in TypesC,
             OneEach(a, b), OneEach(b, c), OneEach(a, c),
             compared' = <<Object(1, 1, a), Object(2, 2, b), Object(3, 3, c), None>>
      PROVE  CompareInv'
  <2>1. PICK x : x = Object(1, 1, a)
    OBVIOUS
  <2>2. PICK y : y = Object(2, 2, b)
    OBVIOUS
  <2>3. PICK z : z = Object(3, 3, c)
    OBVIOUS
  <2>4. Peers(x, y) /\ Peers(y, x) /\ x # y
    BY <1>2, <2>1, <2>2, PickedArePeers
  <2>5. Peers(y, z) /\ Peers(z, y) /\ y # z
    BY <1>2, <2>2, <2>3, PickedArePeers
  <2>6. Peers(x, z) /\ Peers(z, x) /\ x # z
    BY <1>2, <2>1, <2>3, PickedArePeers
  <2>7. /\ Peers(x, None) /\ Peers(x, x) /\ x # None
        /\ Peers(y, None) /\ Peers(y, y) /\ y # None
        /\ Peers(z, None) /\ Peers(z, z) /\ z # None
    BY <1>2, <2>1, <2>2, <2>3, PickedIs
  <2>8. Peers(None, x) /\ Peers(None, y) /\ Peers(None, z) /\ Peers(None, None)
    BY <2>7, PeersReversed
  <2>9. compared' = <<x, y, z, None>>
    BY <1>2, <2>1, <2>2, <2>3
  <2>10. /\ DOMAIN compared' = {1, 2, 3, 4}
         /\ compared'[1] = x /\ compared'[2] = y /\ compared'[3] = z /\ compared'[4] = None
    BY <2>9
  <2>11. QED
    BY <2>4, <2>5, <2>6, <2>7, <2>8, <2>10 DEF CompareInv
<1>3. QED
  BY <1>1, <1>2 DEF ComparePick

\* Any two of the objects are peers.
LEMMA PairsArePeers ==
  ASSUME CompareInv, NEW i \in DOMAIN compared, NEW j \in DOMAIN compared
  PROVE  /\ Peers(compared[i], compared[j])
         /\ compared[i] = compared[j] <=> i = j
BY DEF CompareInv

-----------------------------------------------------------------------------
(* Answers by the keys.                                                    *)

\* Does the slot of x answer about y?
Answers(x, y) ==
  \/ x.type.rich = "all"
  \/ x.type.rich = "own" /\ (x.type = y.type \/ Subtype(y.type, x.type))

LEMMA SwappedOp ==
  ASSUME NEW op \in Ops, NEW a \in Int, NEW b \in Int
  PROVE  /\ Swapped(op) \in Ops
         /\ Holds(Swapped(op), b, a) <=> Holds(op, a, b)
         /\ Holds(Swapped(op), -a, 0) <=> Holds(op, a, 0)
         /\ Holds(op, Sign(a - b), 0) <=> Holds(op, a, b)
         /\ Sign(b - a) = -Sign(a - b) /\ Sign(a - b) \in -1 .. 1
<1>1. CASE op = "<"
  BY <1>1 DEF Swapped, Holds, Sign, Ops
<1>2. CASE op = "<="
  BY <1>2 DEF Swapped, Holds, Sign, Ops
<1>3. CASE op = "=="
  BY <1>3 DEF Swapped, Holds, Sign, Ops
<1>4. CASE op = "!="
  BY <1>4 DEF Swapped, Holds, Sign, Ops
<1>5. CASE op = ">"
  BY <1>5 DEF Swapped, Holds, Sign, Ops
<1>6. CASE op = ">="
  BY <1>6 DEF Swapped, Holds, Sign, Ops
<1>7. QED
  BY <1>1, <1>2, <1>3, <1>4, <1>5, <1>6 DEF Ops

\* The slots of honest types answer by the keys, or to nothing.
LEMMA RichIs ==
  ASSUME NEW x, NEW y, Peers(x, y), Honest(x), NEW op \in Ops
  PROVE  Rich(x, y, op) = IF Answers(x, y) THEN Truth(Holds(op, x.key, y.key))
                          ELSE "NotImplemented"
<1>1. CASE x.type.rich \in {"null", "never"}
  BY <1>1 DEF Rich, Answers
<1>2. CASE x.type.rich = "all"
  BY <1>2 DEF Rich, Answers
<1>3. CASE x.type.rich = "own"
  BY <1>3 DEF Rich, Answers
<1>4. QED
  BY <1>1, <1>2, <1>3 DEF Honest

\* The first answer of two, of three and of four.
LEMMA FirstOfTwo ==
  ASSUME NEW a, NEW b
  PROVE  FirstOf(<<a, b>>) = IF a # "NotImplemented" THEN a ELSE b
<1> DEFINE s == <<a, b>>
           has == {i \in DOMAIN s : s[i] # "NotImplemented"}
<1>1. FirstOf(s) = IF has = {} THEN "NotImplemented" ELSE s[Min(has)]
  BY DEF FirstOf
<1>2. DOMAIN s = {1, 2} /\ s[1] = a /\ s[2] = b
  OBVIOUS
<1>3. has \in SUBSET Nat
  BY <1>2
<1> HIDE DEF has
<1>4. has # {} => Min(has) \in has /\ \A i \in has : Min(has) <= i
  BY <1>3, Least DEF Min
<1>5. \A i : i \in has <=> i \in {1, 2} /\ s[i] # "NotImplemented"
  BY <1>2 DEF has
<1> HIDE DEF s
<1>6. CASE a # "NotImplemented"
  <2>1. 1 \in has
    BY <1>2, <1>5, <1>6
  <2>2. Min(has) = 1
    BY <1>4, <1>5, <2>1
  <2>3. QED
    BY <1>1, <1>2, <1>6, <2>1, <2>2 DEF s
<1>7. CASE a = "NotImplemented" /\ b # "NotImplemented"
  <2>1. 2 \in has /\ 1 \notin has
    BY <1>2, <1>5, <1>7
  <2>2. Min(has) = 2
    BY <1>4, <1>5, <2>1
  <2>3. QED
    BY <1>1, <1>2, <1>7, <2>1, <2>2 DEF s
<1>8. CASE a = "NotImplemented" /\ b = "NotImplemented"
  <2>1. has = {}
    BY <1>2, <1>5, <1>8
  <2>2. QED
    BY <1>1, <1>8, <2>1 DEF s
<1>9. QED
  BY <1>6, <1>7, <1>8

LEMMA FirstOfThree ==
  ASSUME NEW a, NEW b, NEW c
  PROVE  FirstOf(<<a, b, c>>) = IF a # "NotImplemented" THEN a
                                ELSE IF b # "NotImplemented" THEN b ELSE c
<1> DEFINE s == <<a, b, c>>
           has == {i \in DOMAIN s : s[i] # "NotImplemented"}
<1>1. FirstOf(s) = IF has = {} THEN "NotImplemented" ELSE s[Min(has)]
  BY DEF FirstOf
<1>2. DOMAIN s = {1, 2, 3} /\ s[1] = a /\ s[2] = b /\ s[3] = c
  OBVIOUS
<1>3. has \in SUBSET Nat
  BY <1>2
<1> HIDE DEF has
<1>4. has # {} => Min(has) \in has /\ \A i \in has : Min(has) <= i
  BY <1>3, Least DEF Min
<1>5. \A i : i \in has <=> i \in {1, 2, 3} /\ s[i] # "NotImplemented"
  BY <1>2 DEF has
<1> HIDE DEF s
<1>6. CASE a # "NotImplemented"
  <2>1. 1 \in has
    BY <1>2, <1>5, <1>6
  <2>2. Min(has) = 1
    BY <1>4, <1>5, <2>1
  <2>3. QED
    BY <1>1, <1>2, <1>6, <2>1, <2>2 DEF s
<1>7. CASE a = "NotImplemented" /\ b # "NotImplemented"
  <2>1. 2 \in has /\ 1 \notin has
    BY <1>2, <1>5, <1>7
  <2>2. Min(has) = 2
    BY <1>4, <1>5, <2>1
  <2>3. QED
    BY <1>1, <1>2, <1>7, <2>1, <2>2 DEF s
<1>8. CASE a = "NotImplemented" /\ b = "NotImplemented" /\ c # "NotImplemented"
  <2>1. has = {3}
    BY <1>2, <1>5, <1>8
  <2>2. Min(has) = 3
    BY <1>4, <2>1
  <2>3. QED
    BY <1>1, <1>2, <1>8, <2>1, <2>2 DEF s
<1>9. CASE a = "NotImplemented" /\ b = "NotImplemented" /\ c = "NotImplemented"
  <2>1. has = {}
    BY <1>2, <1>5, <1>9
  <2>2. QED
    BY <1>1, <1>9, <2>1 DEF s
<1>10. QED
  BY <1>6, <1>7, <1>8, <1>9

\* Two sequences put together, and those of one and of two answers.
LEMMA PutTogether ==
  ASSUME NEW S, NEW p \in Seq(S), NEW q \in Seq(S), NEW t \in Seq(S),
         Len(t) = Len(p) + Len(q),
         \A i \in 1 .. Len(t) : t[i] = IF i <= Len(p) THEN p[i] ELSE q[i - Len(p)]
  PROVE  p \o q = t
<1>1. /\ p \o q \in Seq(S) /\ Len(p \o q) = Len(t)
      /\ \A i \in 1 .. Len(p) + Len(q) :
           (p \o q)[i] = IF i <= Len(p) THEN p[i] ELSE q[i - Len(p)]
  BY ConcatProperties
<1>2. \A i \in 1 .. Len(t) : (p \o q)[i] = t[i]
  BY <1>1
<1>3. QED
  BY <1>1, <1>2, SeqEqual

LEMMA AnswersTogether ==
  ASSUME NEW a, NEW r
  PROVE  /\ <<a>> \o <<r>> = <<a, r>> /\ <<r>> \o <<a, r>> = <<r, a, r>>
         /\ <<r, a>> \o <<r>> = <<r, a, r>> /\ <<>> \o <<a, r>> = <<a, r>>
         /\ <<>> \o <<a>> = <<a>> /\ <<r, a>> \o <<>> = <<r, a>>
<1> DEFINE S == {a, r}
           one == <<r>>
           two == <<a, r>>
           end == <<r, a>>
           last == <<a>>
           all == <<r, a, r>>
<1>1. /\ one \in Seq(S) /\ two \in Seq(S) /\ end \in Seq(S) /\ last \in Seq(S)
      /\ all \in Seq(S)
  OBVIOUS
<1>2. /\ Len(one) = 1 /\ Len(two) = 2 /\ Len(end) = 2 /\ Len(last) = 1 /\ Len(all) = 3
      /\ one[1] = r /\ two[1] = a /\ two[2] = r /\ end[1] = r /\ end[2] = a /\ last[1] = a
      /\ all[1] = r /\ all[2] = a /\ all[3] = r
  OBVIOUS
<1>3. /\ <<>> \o two = two /\ <<>> \o last = last /\ end \o <<>> = end
  BY <1>1, ConcatEmptySeq, Zenon
<1> HIDE DEF S, one, two, end, last, all
<1>4. 1 .. 3 = {1, 2, 3} /\ 1 .. 2 = {1, 2}
  OBVIOUS
<1>5. \A i \in 1 .. Len(two) : two[i] = IF i <= Len(last) THEN last[i] ELSE one[i - Len(last)]
  BY <1>2, <1>4
<1>6. \A i \in 1 .. Len(all) : all[i] = IF i <= Len(one) THEN one[i] ELSE two[i - Len(one)]
  BY <1>2, <1>4
<1>7. \A i \in 1 .. Len(all) : all[i] = IF i <= Len(end) THEN end[i] ELSE one[i - Len(end)]
  BY <1>2, <1>4
<1>8. /\ Len(two) = Len(last) + Len(one) /\ Len(all) = Len(one) + Len(two)
      /\ Len(all) = Len(end) + Len(one)
  BY <1>2
<1>9. last \o one = two
  BY <1>1, <1>5, <1>8, PutTogether, Zenon
<1>10. one \o two = all
  BY <1>1, <1>6, <1>8, PutTogether, Zenon
<1>11. end \o one = all
  BY <1>1, <1>7, <1>8, PutTogether, Zenon
<1>12. QED
  BY <1>3, <1>9, <1>10, <1>11 DEF one, two, end, last, all

\* A subtype is asked first, but the answer is that of the first who has one.
LEMMA TryRichIs ==
  ASSUME NEW v, NEW w, NEW op
  PROVE  LET r == Rich(w, v, Swapped(op))
             a == Rich(v, w, op)
         IN /\ TryRich(v, w, op) = IF Subtype(w.type, v.type) /\ r # "NotImplemented" THEN r
                                   ELSE IF a # "NotImplemented" THEN a ELSE r
            /\ TryRich33(v, w, op) = TryRich(v, w, op)
<1> DEFINE r == Rich(w, v, Swapped(op))
           a == Rich(v, w, op)
           sub == Subtype(w.type, v.type)
           checked == CheckedReverse(v, w)
<1>1. /\ TryRich(v, w, op) = FirstOf((IF sub THEN <<r>> ELSE <<>>) \o <<a, r>>)
      /\ TryRich33(v, w, op) = FirstOf((IF sub THEN <<r>> ELSE <<>>) \o <<a>>
                                         \o (IF checked THEN <<>> ELSE <<r>>))
  BY DEF TryRich, TryRich33
<1>2. checked => sub
  BY DEF CheckedReverse
<1>3. ~checked /\ sub => r = "NotImplemented"
  BY DEF CheckedReverse, Rich
<1> HIDE DEF r, a, sub, checked
<1>4. <<>> \o <<a, r>> = <<a, r>> /\ <<r>> \o <<a, r>> = <<r, a, r>>
  BY AnswersTogether
<1>5. /\ (<<>> \o <<a>>) \o <<r>> = <<a, r>> /\ (<<r>> \o <<a>>) \o <<>> = <<r, a>>
      /\ (<<r>> \o <<a>>) \o <<r>> = <<r, a, r>>
  <2>1. <<>> \o <<a>> = <<a>> /\ <<a>> \o <<r>> = <<a, r>>
    BY AnswersTogether
  <2>2. <<r>> \o <<a>> = <<r, a>>
    BY AnswersTogether
  <2>3. <<r, a>> \o <<>> = <<r, a>> /\ <<r, a>> \o <<r>> = <<r, a, r>>
    BY AnswersTogether
  <2>4. QED
    BY <2>1, <2>2, <2>3, Zenon
<1>6. CASE checked
  <2>1. TryRich(v, w, op) = FirstOf(<<r, a, r>>) /\ TryRich33(v, w, op) = FirstOf(<<r, a>>)
    BY <1>1, <1>2, <1>4, <1>5, <1>6
  <2>2. QED
    BY <1>2, <1>6, <2>1, FirstOfTwo, FirstOfThree DEF r, a, sub
<1>7. CASE ~checked /\ sub
  <2>1. TryRich(v, w, op) = FirstOf(<<r, a, r>>) /\ TryRich33(v, w, op) = FirstOf(<<r, a, r>>)
    BY <1>1, <1>4, <1>5, <1>7
  <2>2. QED
    BY <1>7, <2>1, FirstOfThree DEF r, a, sub
<1>8. CASE ~sub
  <2>1. TryRich(v, w, op) = FirstOf(<<a, r>>) /\ TryRich33(v, w, op) = FirstOf(<<a, r>>)
    BY <1>1, <1>2, <1>4, <1>5, <1>8
  <2>2. QED
    BY <1>8, <2>1, FirstOfTwo DEF r, a, sub
<1>9. QED
  BY <1>6, <1>7, <1>8

\* Does one of the two types answer by the keys?
Either(v, w) == Answers(v, w) \/ Answers(w, v)

LEMMA TryRichHonest ==
  ASSUME NEW v, NEW w, Peers(v, w), Honest(v), Honest(w), NEW op \in Ops
  PROVE  TryRich(v, w, op) = IF Either(v, w) THEN Truth(Holds(op, v.key, w.key))
                             ELSE "NotImplemented"
<1>1. v.key \in Int /\ w.key \in Int /\ Peers(w, v)
  BY PeersReversed DEF Peers, Objects3
<1>2. Swapped(op) \in Ops /\ (Holds(Swapped(op), w.key, v.key) <=> Holds(op, v.key, w.key))
  BY <1>1, SwappedOp
<1>3. Rich(v, w, op) = IF Answers(v, w) THEN Truth(Holds(op, v.key, w.key))
                       ELSE "NotImplemented"
  BY RichIs
<1>4. Rich(w, v, Swapped(op)) = IF Answers(w, v) THEN Truth(Holds(Swapped(op), w.key, v.key))
                                ELSE "NotImplemented"
  BY <1>1, <1>2, RichIs
<1>5. Truth(Holds(Swapped(op), w.key, v.key)) = Truth(Holds(op, v.key, w.key))
  BY <1>2 DEF Truth
<1>6. Truth(Holds(op, v.key, w.key)) # "NotImplemented"
  BY DEF Truth
<1>7. TryRich(v, w, op) =
        IF Subtype(w.type, v.type) /\ Rich(w, v, Swapped(op)) # "NotImplemented"
        THEN Rich(w, v, Swapped(op))
        ELSE IF Rich(v, w, op) # "NotImplemented" THEN Rich(v, w, op)
        ELSE Rich(w, v, Swapped(op))
  BY TryRichIs
<1>8. QED
  BY <1>3, <1>4, <1>5, <1>6, <1>7 DEF Either

LEMMA TryRichBoolIs ==
  ASSUME NEW v, NEW w, Peers(v, w), Honest(v), Honest(w), NEW op \in Ops
  PROVE  TryRichBool(v, w, op) = IF ~Either(v, w) THEN 2
                                 ELSE IF Holds(op, v.key, w.key) THEN 1 ELSE 0
BY TryRichHonest DEF TryRichBool, IsTrue, Truth

LEMMA TryRichTo3wayIs ==
  ASSUME NEW v, NEW w, Peers(v, w), Honest(v), Honest(w)
  PROVE  TryRichTo3way(v, w) = IF Either(v, w) THEN Sign(v.key - w.key) ELSE 2
<1> DEFINE tries == <<[op |-> "==", outcome |-> 0], [op |-> "<", outcome |-> -1],
                      [op |-> ">", outcome |-> 1]>>
           yes == {i \in 1 .. 3 : TryRichBool(v, w, tries[i].op) \in {-1, 1}}
<1>1. TryRichTo3way(v, w) =
        IF yes = {} THEN 2
        ELSE IF TryRichBool(v, w, tries[Min(yes)].op) = -1 THEN -2
        ELSE tries[Min(yes)].outcome
  BY DEF TryRichTo3way
<1>2. /\ tries[1].op = "==" /\ tries[2].op = "<" /\ tries[3].op = ">"
      /\ tries[1].outcome = 0 /\ tries[2].outcome = -1 /\ tries[3].outcome = 1
  OBVIOUS
<1>3. yes \in SUBSET Nat
  OBVIOUS
<1>4. \A i : i \in yes <=> i \in {1, 2, 3} /\ TryRichBool(v, w, tries[i].op) \in {-1, 1}
  OBVIOUS
<1> HIDE DEF tries, yes
<1>5. yes # {} => Min(yes) \in yes
  BY <1>3, Least DEF Min
<1>6. v.key \in Int /\ w.key \in Int
  BY DEF Peers, Objects3
<1>7. /\ TryRichBool(v, w, "==") = IF ~Either(v, w) THEN 2 ELSE IF v.key = w.key THEN 1 ELSE 0
      /\ TryRichBool(v, w, "<") = IF ~Either(v, w) THEN 2 ELSE IF v.key < w.key THEN 1 ELSE 0
      /\ TryRichBool(v, w, ">") = IF ~Either(v, w) THEN 2 ELSE IF v.key > w.key THEN 1 ELSE 0
  <2>1. "==" \in Ops /\ "<" \in Ops /\ ">" \in Ops
    BY DEF Ops
  <2>2. /\ Holds("==", v.key, w.key) <=> v.key = w.key
        /\ Holds("<", v.key, w.key) <=> v.key < w.key
        /\ Holds(">", v.key, w.key) <=> v.key > w.key
    BY DEF Holds
  <2>3. QED
    BY <2>1, <2>2, TryRichBoolIs
<1>8. CASE ~Either(v, w)
  <2>1. yes = {}
    BY <1>2, <1>4, <1>7, <1>8
  <2>2. QED
    BY <1>1, <1>8, <2>1
<1>9. CASE Either(v, w) /\ v.key = w.key
  <2>1. yes = {1}
    BY <1>2, <1>4, <1>6, <1>7, <1>9
  <2>2. Min(yes) = 1
    BY <1>5, <2>1
  <2>3. QED
    BY <1>1, <1>2, <1>6, <1>7, <1>9, <2>1, <2>2 DEF Sign
<1>10. CASE Either(v, w) /\ v.key < w.key
  <2>1. yes = {2}
    BY <1>2, <1>4, <1>6, <1>7, <1>10
  <2>2. Min(yes) = 2
    BY <1>5, <2>1
  <2>3. QED
    BY <1>1, <1>2, <1>6, <1>7, <1>10, <2>1, <2>2 DEF Sign
<1>11. CASE Either(v, w) /\ v.key > w.key
  <2>1. yes = {3}
    BY <1>2, <1>4, <1>6, <1>7, <1>11
  <2>2. Min(yes) = 3
    BY <1>5, <2>1
  <2>3. QED
    BY <1>1, <1>2, <1>6, <1>7, <1>11, <2>1, <2>2 DEF Sign
<1>12. QED
  BY <1>6, <1>8, <1>9, <1>10, <1>11

-----------------------------------------------------------------------------
(* The other ways, and what is found at the end.                           *)

LEMMA AdjustIs ==
  ASSUME NEW v, NEW w, Peers(v, w), Honest(v)
  PROVE  Adjust(Cmp(v, w)) = Sign(v.key - w.key)
<1>1. v.key \in Int /\ w.key \in Int
  BY DEF Peers, Objects3
<1>2. Sign(v.key - w.key) \in -1 .. 1
  BY <1>1 DEF Sign
<1>3. CASE v.type.cmp = "wild"
  <2>1. Cmp(v, w) = [c |-> 2 * Sign(v.key - w.key), err |-> FALSE]
    BY <1>3 DEF Cmp
  <2>2. ~WarningsRaise
    BY <1>3 DEF Honest
  <2>3. QED
    BY <1>1, <1>2, <2>1, <2>2 DEF Adjust, Sign
<1>4. CASE v.type.cmp # "wild"
  <2>1. Cmp(v, w) = [c |-> Sign(v.key - w.key), err |-> FALSE]
    BY <1>4 DEF Cmp, Honest
  <2>2. QED
    BY <1>2, <2>1 DEF Adjust
<1>5. QED
  BY <1>3, <1>4

\* try_3way_compare() finds the order of the keys or nothing, whoever is first.
LEMMA Try3wayIs ==
  ASSUME NEW v, NEW w, Peers(v, w), Honest(v), Honest(w)
  PROVE  /\ Try3way(v, w) \in {2, Sign(v.key - w.key)}
         /\ CoerceEx(v, w) = CoerceEx(w, v) => (Try3way(v, w) = 2 <=> Try3way(w, v) = 2)
         /\ v.type = w.type /\ v.type.cmp # "null" => Try3way(v, w) = Sign(v.key - w.key)
<1>1. v.key \in Int /\ w.key \in Int /\ v.type.old \in BOOLEAN /\ w.type.old \in BOOLEAN
  BY DEF Peers, Objects3, TypeRecords
<1>2. Sign(v.key - w.key) \in -1 .. 1 /\ Sign(w.key - v.key) \in -1 .. 1
  BY <1>1 DEF Sign
<1>3. Adjust(Cmp(v, w)) = Sign(v.key - w.key) /\ Adjust(Cmp(w, v)) = Sign(w.key - v.key)
  BY AdjustIs, PeersReversed
<1>4. CASE v.type.old \/ w.type.old
  <2>1. /\ Try3way(v, w) = InstanceCompare(v, w)
        /\ Try3way(w, v) = InstanceCompare(w, v)
    BY <1>4 DEF Try3way
  <2>2. PICK t : /\ t = IF v.type.old THEN v.type ELSE w.type
                 /\ t = IF w.type.old THEN w.type ELSE v.type
    BY <1>4 DEF Peers
  <2>3. t.cmp # "raises"
    BY <2>2 DEF Honest
  <2>4. /\ InstanceCompare(v, w) = IF t.cmp = "null" THEN 2 ELSE Sign(v.key - w.key)
        /\ InstanceCompare(w, v) = IF t.cmp = "null" THEN 2 ELSE Sign(w.key - v.key)
    BY <2>2, <2>3 DEF InstanceCompare
  <2>5. v.type = w.type => t = v.type
    BY <2>2
  <2>6. QED
    BY <1>2, <2>1, <2>4, <2>5
<1>5. CASE ~(v.type.old \/ w.type.old)
  <2> DEFINE f == v.type.cmp
             g == w.type.cmp
  <2>1. CASE f # "null" /\ f = g
    <3>1. Try3way(v, w) = Adjust(Cmp(v, w)) /\ Try3way(w, v) = Adjust(Cmp(w, v))
      BY <1>5, <2>1 DEF Try3way
    <3>2. QED
      BY <1>2, <1>3, <3>1
  <2>2. CASE f # g /\ "slot" \in {f, g}
    <3>1. Try3way(v, w) = Sign(v.key - w.key) /\ Try3way(w, v) = Sign(w.key - v.key)
      BY <1>5, <2>2 DEF Try3way
    <3>2. QED
      BY <1>2, <2>2, <3>1
  <2>3. CASE ~(f # "null" /\ f = g) /\ ~(f # g /\ "slot" \in {f, g})
    <3>1. CoerceEx(v, w) # "raises" /\ CoerceEx(w, v) # "raises"
      BY DEF CoerceEx, Honest
    <3>2. /\ Try3way(v, w) = IF CoerceEx(v, w) = "yes" THEN Sign(v.key - w.key) ELSE 2
          /\ Try3way(w, v) = IF CoerceEx(w, v) = "yes" THEN Sign(w.key - v.key) ELSE 2
      BY <1>5, <2>3, <3>1 DEF Try3way
    <3>3. ~(v.type = w.type /\ v.type.cmp # "null")
      BY <2>3
    <3>4. QED
      BY <1>2, <3>1, <3>2, <3>3
  <2>4. QED
    BY <2>1, <2>2, <2>3
<1>6. QED
  BY <1>4, <1>5

\* The fallback orders any two objects one way.
LEMMA DefaultIs ==
  ASSUME NEW v, NEW w, Peers(v, w)
  PROVE  /\ Default3way(v, w) \in -1 .. 1
         /\ Default3way(w, v) = -Default3way(v, w)
         /\ Default3way(v, w) = 0 <=> v = w
<1>1. /\ v.addr \in Nat /\ w.addr \in Nat /\ v.type.id \in Nat /\ w.type.id \in Nat
      /\ v.type.name \in Nat /\ w.type.name \in Nat
  BY DEF Peers, Objects3, TypeRecords
<1>2. CASE v.type = w.type
  <2>1. Default3way(v, w) = Sign(v.addr - w.addr) /\ Default3way(w, v) = Sign(w.addr - v.addr)
    BY <1>2 DEF Default3way
  <2>2. QED
    BY <1>1, <2>1 DEF Sign, Peers
<1>3. CASE v.type # w.type
  <2> DEFINE m == IF v.type.number THEN 0 ELSE v.type.name
             n == IF w.type.number THEN 0 ELSE w.type.name
  <2>1. /\ Default3way(v, w) = IF NoneFirst(v, w) # 0 THEN NoneFirst(v, w)
                               ELSE IF m # n THEN Sign(m - n)
                               ELSE IF v.type.id < w.type.id THEN -1 ELSE 1
        /\ Default3way(w, v) = IF NoneFirst(w, v) # 0 THEN NoneFirst(w, v)
                               ELSE IF n # m THEN Sign(n - m)
                               ELSE IF w.type.id < v.type.id THEN -1 ELSE 1
    BY <1>3 DEF Default3way
  <2>2. m \in Nat /\ n \in Nat
    BY <1>1
  <2> HIDE DEF m, n
  <2>3. v # w /\ ~(v = None /\ w = None)
    BY <1>3
  <2>4. /\ NoneFirst(v, w) \in -1 .. 1 /\ NoneFirst(w, v) = -NoneFirst(v, w)
    BY <2>3 DEF NoneFirst
  <2>5. v.type.id # w.type.id
    BY <1>3 DEF Peers
  <2>6. /\ m # n => Sign(m - n) \in {-1, 1} /\ Sign(n - m) = -Sign(m - n)
    BY <2>2 DEF Sign
  <2>7. QED
    BY <1>1, <2>1, <2>2, <2>3, <2>4, <2>5, <2>6
<1>4. QED
  BY <1>2, <1>3

\* It has no cycles: it compares whether an object is None, whether it is a
\* number or the name of its type, the addresses of the types and those of the
\* objects, in this order.
Rank(x) == IF x.type.number THEN 0 ELSE x.type.name

LEMMA DefaultSmaller ==
  ASSUME NEW v, NEW w, Peers(v, w), v # None, w # None
  PROVE  Default3way(v, w) < 0 <=>
           \/ v.type # w.type /\ Rank(v) < Rank(w)
           \/ v.type # w.type /\ Rank(v) = Rank(w) /\ v.type.id < w.type.id
           \/ v.type = w.type /\ v.addr < w.addr
<1>1. /\ v.addr \in Nat /\ w.addr \in Nat /\ v.type.id \in Nat /\ w.type.id \in Nat
      /\ Rank(v) \in Nat /\ Rank(w) \in Nat
  BY DEF Peers, Objects3, TypeRecords, Rank
<1>2. CASE v.type = w.type
  <2>1. Default3way(v, w) = Sign(v.addr - w.addr)
    BY <1>2 DEF Default3way
  <2>2. QED
    BY <1>1, <1>2, <2>1 DEF Sign
<1>3. CASE v.type # w.type
  <2>1. NoneFirst(v, w) = 0
    BY DEF NoneFirst
  <2>2. Default3way(v, w) = IF Rank(v) # Rank(w) THEN Sign(Rank(v) - Rank(w))
                            ELSE IF v.type.id < w.type.id THEN -1 ELSE 1
    BY <1>3, <2>1 DEF Default3way, Rank
  <2>3. QED
    BY <1>1, <1>3, <2>2 DEF Sign
<1>4. QED
  BY <1>2, <1>3

LEMMA DefaultNone ==
  ASSUME NEW v, Peers(v, None), v # None
  PROVE  Default3way(None, v) = -1 /\ Default3way(v, None) = 1
BY DEF Peers, Default3way, NoneFirst

LEMMA DefaultTransitive ==
  ASSUME NEW u, NEW v, NEW w, Peers(u, v), Peers(v, w), Peers(u, w),
         Default3way(u, v) < 0, Default3way(v, w) < 0
  PROVE  Default3way(u, w) < 0
<1>1. Default3way(None, None) = 0
  BY NoneIs DEF Default3way, Sign
<1>2. v # None
  BY <1>1, DefaultNone, PeersReversed
<1>3. w # None
  BY <1>2, DefaultNone
<1>4. CASE u = None
  BY <1>3, <1>4, DefaultNone, PeersReversed
<1>5. CASE u # None
  <2>1. /\ u.addr \in Nat /\ v.addr \in Nat /\ w.addr \in Nat
        /\ u.type.id \in Nat /\ v.type.id \in Nat /\ w.type.id \in Nat
        /\ Rank(u) \in Nat /\ Rank(v) \in Nat /\ Rank(w) \in Nat
    BY DEF Peers, Objects3, TypeRecords, Rank
  <2>2. /\ \/ u.type # v.type /\ Rank(u) < Rank(v)
           \/ u.type # v.type /\ Rank(u) = Rank(v) /\ u.type.id < v.type.id
           \/ u.type = v.type /\ u.addr < v.addr
        /\ \/ v.type # w.type /\ Rank(v) < Rank(w)
           \/ v.type # w.type /\ Rank(v) = Rank(w) /\ v.type.id < w.type.id
           \/ v.type = w.type /\ v.addr < w.addr
    BY <1>2, <1>3, <1>5, DefaultSmaller
  <2>3. /\ u.type = v.type => Rank(u) = Rank(v) /\ u.type.id = v.type.id
        /\ v.type = w.type => Rank(v) = Rank(w) /\ v.type.id = w.type.id
        /\ u.type = w.type => Rank(u) = Rank(w) /\ u.type.id = w.type.id
    BY DEF Rank
  <2>4. \/ u.type # w.type /\ Rank(u) < Rank(w)
        \/ u.type # w.type /\ Rank(u) = Rank(w) /\ u.type.id < w.type.id
        \/ u.type = w.type /\ u.addr < w.addr
    BY <2>1, <2>2, <2>3
  <2>5. QED
    BY <1>3, <1>5, <2>4, DefaultSmaller
<1>6. QED
  BY <1>4, <1>5

\* The order of two objects: that of their keys if a type compares them, and
\* of the fallback otherwise.
ByKeys(v, w) ==
  \/ v.type = w.type /\ v.type.cmp # "null"
  \/ Either(v, w)
  \/ Try3way(v, w) # 2

Order(v, w) == IF ByKeys(v, w) THEN Sign(v.key - w.key) ELSE Default3way(v, w)

LEMMA OrderReversed ==
  ASSUME NEW v, NEW w, Peers(v, w), Honest(v), Honest(w)
  PROVE  /\ Order(v, w) \in -1 .. 1
         /\ CoerceEx(v, w) = CoerceEx(w, v) => Order(w, v) = -Order(v, w)
         /\ v = w => Order(v, w) = 0
<1>1. v.key \in Int /\ w.key \in Int
  BY DEF Peers, Objects3
<1>2. CoerceEx(v, w) = CoerceEx(w, v) => (ByKeys(w, v) <=> ByKeys(v, w))
  BY Try3wayIs DEF ByKeys, Either
<1>3. Sign(v.key - w.key) \in -1 .. 1 /\ Sign(w.key - v.key) = -Sign(v.key - w.key)
  BY <1>1 DEF Sign
<1>4. v = w => Sign(v.key - w.key) = 0
  BY <1>1 DEF Sign
<1>5. QED
  BY <1>2, <1>3, <1>4, DefaultIs DEF Order

\* cmp() tells the order.
LEMMA CompareIs ==
  ASSUME NEW v, NEW w, Peers(v, w), Honest(v), Honest(w)
  PROVE  Compare(v, w) = Order(v, w)
<1>1. v.key \in Int /\ w.key \in Int
  BY DEF Peers, Objects3
<1>2. Sign(v.key - w.key) \in -1 .. 1
  BY <1>1 DEF Sign
<1> DEFINE first == IF v.type # w.type \/ v.type.cmp = "null" THEN 2
                    ELSE IF v.type.old THEN InstanceCompare(v, w)
                    ELSE Adjust(Cmp(v, w))
<1>3. DoCmp(v, w) = CASE first # 2 -> first
                      [] first = 2 /\ TryRichTo3way(v, w) < 2 -> TryRichTo3way(v, w)
                      [] OTHER -> IF Try3way(v, w) < 2 THEN Try3way(v, w) ELSE Default3way(v, w)
  BY DEF DoCmp
<1>4. first = IF v.type = w.type /\ v.type.cmp # "null" THEN Sign(v.key - w.key) ELSE 2
  <2>1. CASE v.type = w.type /\ v.type.cmp # "null" /\ v.type.old
    BY <2>1 DEF InstanceCompare, Honest
  <2>2. CASE v.type = w.type /\ v.type.cmp # "null" /\ ~v.type.old
    BY <2>2, AdjustIs
  <2>3. QED
    BY <2>1, <2>2
<1> HIDE DEF first
<1>5. TryRichTo3way(v, w) = IF Either(v, w) THEN Sign(v.key - w.key) ELSE 2
  BY TryRichTo3wayIs
<1>6. Try3way(v, w) \in {2, Sign(v.key - w.key)}
  BY Try3wayIs
<1>7. DoCmp(v, w) = Order(v, w)
  <2>1. CASE v.type = w.type /\ v.type.cmp # "null"
    BY <1>2, <1>3, <1>4, <2>1 DEF Order, ByKeys
  <2>2. CASE ~(v.type = w.type /\ v.type.cmp # "null") /\ Either(v, w)
    BY <1>2, <1>3, <1>4, <1>5, <2>2 DEF Order, ByKeys
  <2>3. CASE ~(v.type = w.type /\ v.type.cmp # "null") /\ ~Either(v, w)
    <3>1. DoCmp(v, w) = IF Try3way(v, w) < 2 THEN Try3way(v, w) ELSE Default3way(v, w)
      BY <1>3, <1>4, <1>5, <2>3
    <3>2. ByKeys(v, w) <=> Try3way(v, w) # 2
      BY <2>3 DEF ByKeys
    <3>3. QED
      BY <1>2, <1>6, <3>1, <3>2 DEF Order
  <2>4. QED
    BY <2>1, <2>2, <2>3
<1>8. Order(v, w) \in -1 .. 1 /\ (v = w => Order(v, w) = 0)
  BY OrderReversed
<1>9. QED
  BY <1>7, <1>8 DEF Compare

\* The operators of Python 2 tell the order.
LEMMA RichCompareIs ==
  ASSUME NEW v, NEW w, Peers(v, w), Honest(v), Honest(w), NEW op \in Ops
  PROVE  RichCompare(v, w, op) = Truth(Holds(op, Order(v, w), 0))
<1>1. v.key \in Int /\ w.key \in Int /\ Sign(v.key - w.key) \in -1 .. 1
  BY DEF Peers, Objects3, Sign
<1>2. Holds(op, Sign(v.key - w.key), 0) <=> Holds(op, v.key, w.key)
  BY <1>1, SwappedOp
<1>3. Truth(Holds(op, v.key, w.key)) = Truth(Holds(op, Sign(v.key - w.key), 0))
  BY <1>2 DEF Truth
<1>4. Truth(Holds(op, v.key, w.key)) # "NotImplemented"
  BY DEF Truth
<1>5. DoRichcmp(v, w, op) = Truth(Holds(op, Order(v, w), 0))
  <2>1. CASE Either(v, w)
    BY <1>3, <1>4, <2>1, TryRichHonest DEF DoRichcmp, Order, ByKeys
  <2>2. CASE ~Either(v, w)
    <3>1. DoRichcmp(v, w, op) = Try3wayToRich(v, w, op)
      BY <2>2, TryRichHonest DEF DoRichcmp
    <3>2. Try3way(v, w) \in {2, Sign(v.key - w.key)}
      BY Try3wayIs
    <3>3. (IF Try3way(v, w) >= 2 THEN Default3way(v, w) ELSE Try3way(v, w)) = Order(v, w)
      <4>1. ByKeys(v, w) => Try3way(v, w) # 2
        BY <1>1, <2>2, Try3wayIs DEF ByKeys
      <4>2. Try3way(v, w) # 2 => ByKeys(v, w)
        BY DEF ByKeys
      <4>3. QED
        BY <1>1, <3>2, <4>1, <4>2 DEF Order
    <3>4. Order(v, w) \in -1 .. 1
      BY OrderReversed
    <3>5. Try3wayToRich(v, w, op)
            = IF Order(v, w) <= -2 THEN "error" ELSE Truth(Holds(op, Order(v, w), 0))
      BY <3>3 DEF Try3wayToRich
    <3>6. QED
      BY <3>1, <3>4, <3>5
  <2>3. QED
    BY <2>1, <2>2
<1>6. CASE v.type = w.type /\ ~v.type.old /\ Answers(v, w)
  <2>1. Rich(v, w, op) = Truth(Holds(op, v.key, w.key))
    BY <1>6, RichIs
  <2>2. RichCompare(v, w, op) = Rich(v, w, op)
    BY <1>4, <1>6, <2>1 DEF RichCompare
  <2>3. Order(v, w) = Sign(v.key - w.key)
    BY <1>6 DEF Order, ByKeys, Either
  <2>4. QED
    BY <1>3, <2>1, <2>2, <2>3
<1>7. CASE v.type = w.type /\ ~v.type.old /\ ~Answers(v, w) /\ v.type.cmp # "null"
  <2>1. Rich(v, w, op) = "NotImplemented"
    BY <1>7, RichIs
  <2>2. Adjust(Cmp(v, w)) = Sign(v.key - w.key)
    BY AdjustIs
  <2>3. RichCompare(v, w, op) = Truth(Holds(op, Sign(v.key - w.key), 0))
    BY <1>1, <1>7, <2>1, <2>2 DEF RichCompare
  <2>4. Order(v, w) = Sign(v.key - w.key)
    BY <1>7 DEF Order, ByKeys
  <2>5. QED
    BY <2>3, <2>4
<1>8. CASE v.type # w.type \/ v.type.old \/ (~Answers(v, w) /\ v.type.cmp = "null")
  <2>1. ~Answers(v, w) => Rich(v, w, op) = "NotImplemented"
    BY RichIs
  <2>2. RichCompare(v, w, op) = DoRichcmp(v, w, op)
    BY <1>8, <2>1 DEF RichCompare
  <2>3. QED
    BY <1>5, <2>2
<1>9. QED
  BY <1>6, <1>7, <1>8

LEMMA RichCompareBoolIs ==
  ASSUME NEW v, NEW w, Peers(v, w), Honest(v), Honest(w), NEW op \in Ops
  PROVE  RichCompareBool(v, w, op) = IF Holds(op, Order(v, w), 0) THEN 1 ELSE 0
<1>1. IsTrue(RichCompare(v, w, op)) = IF Holds(op, Order(v, w), 0) THEN 1 ELSE 0
  BY RichCompareIs DEF IsTrue, Truth
<1>2. v = w => Order(v, w) = 0
  BY OrderReversed
<1>3. (op = "==" => Holds(op, 0, 0)) /\ (op = "!=" => ~Holds(op, 0, 0))
  BY DEF Holds
<1>4. QED
  BY <1>1, <1>2, <1>3 DEF RichCompareBool

LEMMA RichCompare33Reversed ==
  ASSUME NEW v, NEW w, Peers(v, w), Honest(v), Honest(w), NEW op \in Ops
  PROVE  RichCompare33(v, w, op) = RichCompare33(w, v, Swapped(op))
<1>1. v.key \in Int /\ w.key \in Int /\ Peers(w, v)
  BY PeersReversed DEF Peers, Objects3
<1>2. Swapped(op) \in Ops /\ (Holds(Swapped(op), w.key, v.key) <=> Holds(op, v.key, w.key))
  BY <1>1, SwappedOp
<1>3. TryRich33(v, w, op) = IF Either(v, w) THEN Truth(Holds(op, v.key, w.key))
                            ELSE "NotImplemented"
  BY TryRichHonest, TryRichIs
<1>4. TryRich33(w, v, Swapped(op))
        = IF Either(w, v) THEN Truth(Holds(Swapped(op), w.key, v.key)) ELSE "NotImplemented"
  BY <1>1, <1>2, TryRichHonest, TryRichIs
<1>5. TryRich33(w, v, Swapped(op)) = TryRich33(v, w, op)
  BY <1>2, <1>3, <1>4 DEF Either, Truth
<1>6. /\ Swapped(op) = "==" <=> op = "=="
      /\ Swapped(op) = "!=" <=> op = "!="
  BY DEF Swapped, Ops
<1>7. Truth(v = w) = Truth(w = v) /\ Truth(v # w) = Truth(w # v)
  BY DEF Truth
<1>8. QED
  BY <1>5, <1>6, <1>7 DEF RichCompare33

\* What is said of the objects that are compared.
LEMMA CompareInvShows ==
  CompareInv => ComparisonsAgree /\ ReflectionsAgree /\ DefaultIsOrder /\ VersionsAgree
<1> SUFFICES ASSUME CompareInv
             PROVE  ComparisonsAgree /\ ReflectionsAgree /\ DefaultIsOrder /\ VersionsAgree
  OBVIOUS
<1>1. \A p \in Pairs : Peers(p[1], p[2]) /\ Peers(p[2], p[1])
  BY PairsArePeers, PeersReversed DEF Pairs
<1>2. ComparisonsAgree
  BY <1>1, CompareIs, RichCompareBoolIs DEF ComparisonsAgree
<1>3. ASSUME NEW p \in Pairs, Honest(p[1]), Honest(p[2]), NEW op \in Ops,
             CoerceEx(p[1], p[2]) = CoerceEx(p[2], p[1])
      PROVE  RichCompareBool(p[1], p[2], op) = RichCompareBool(p[2], p[1], Swapped(op))
  <2> DEFINE o == Order(p[1], p[2])
  <2>1. o \in Int /\ Order(p[2], p[1]) = -o
    BY <1>1, <1>3, OrderReversed
  <2>2. Swapped(op) \in Ops /\ (Holds(Swapped(op), -o, 0) <=> Holds(op, o, 0))
    BY <2>1, SwappedOp
  <2>3. RichCompareBool(p[1], p[2], op) = IF Holds(op, o, 0) THEN 1 ELSE 0
    BY <1>1, <1>3, RichCompareBoolIs
  <2>4. RichCompareBool(p[2], p[1], Swapped(op)) = IF Holds(Swapped(op), -o, 0) THEN 1 ELSE 0
    BY <1>1, <1>3, <2>1, <2>2, RichCompareBoolIs
  <2>5. QED
    BY <2>2, <2>3, <2>4
<1>4. ReflectionsAgree
  <2>1. ASSUME NEW p \in Pairs, Honest(p[1]), Honest(p[2]), NEW op \in Ops
        PROVE  RichCompare33(p[1], p[2], op) = RichCompare33(p[2], p[1], Swapped(op))
    BY <1>1, <2>1, RichCompare33Reversed
  <2>2. QED
    BY <1>3, <2>1 DEF ReflectionsAgree
<1>5. VersionsAgree
  BY TryRichIs DEF VersionsAgree
<1>6. DefaultIsOrder
  <2> DEFINE c(a, b) == Default3way(compared[a], compared[b])
  <2>1. \A i, j \in DOMAIN compared :
          /\ c(i, j) \in -1 .. 1 /\ c(j, i) = -c(i, j) /\ (c(i, j) = 0 <=> i = j)
    BY PairsArePeers, DefaultIs
  <2>2. ASSUME NEW i \in DOMAIN compared, NEW j \in DOMAIN compared, NEW k \in DOMAIN compared,
               c(i, j) < 0, c(j, k) < 0
        PROVE  c(i, k) < 0
    BY <2>2, PairsArePeers, DefaultTransitive
  <2>3. QED
    BY <2>1, <2>2 DEF DefaultIsOrder
<1>7. QED
  BY <1>2, <1>4, <1>5, <1>6

-----------------------------------------------------------------------------
(* The theorems.                                                           *)

ResourcesInv ==
  /\ PrintInv /\ TopInv /\ ParseInv /\ IoInv /\ CodecInv
  /\ ReportInv /\ LineInv /\ ConvertInv /\ LifeInv /\ ReprInv /\ AttrInv
  /\ CompareInv

LEMMA ResourcesInitInv == ResourcesInit => ResourcesInv
BY PrintInitInv, TopInitInv, ParseInitInv, IoInitInv, CodecInitInv, ReportInitInv,
   LineInitInv, ConvertInitInv, LifeInitInv, ReprInitInv, AttrInitInv
   DEF ResourcesInit, ResourcesInv, CompareInit, CompareInv

\* A step of one part is a step, or a stutter, of each.
LEMMA StepOfEach ==
  [ResourcesNext]_resourcesVars =>
    /\ [PrintNext]_printVars /\ [TopNext]_topVars /\ [ParseNext]_parseVars /\ [StreamNext]_streamVars
    /\ [ReportNext]_reportVars /\ [Convert]_converted
    /\ [LifeNext]_lifeVars /\ [ReprNext]_reprVars /\ [AttrNext]_attrVars
    /\ [ComparePick]_compared
BY DEF ResourcesNext, resourcesVars

\* A step of the streams is one of initstdio(), or leaves it alone.
LEMMA IoSteps ==
  [StreamNext]_streamVars =>
    \/ ImportModules \/ CheckFd \/ OpenBuffer \/ NameBuffer \/ WrapBuffer
    \/ ReturnStream \/ CreateFails \/ SetStream \/ EndStdio
    \/ UNCHANGED <<io, locals, owed, sys>>
BY DEF StreamNext, streamVars, ReadEnvironment, AskLocale, SetEncodings

LEMMA ResourcesNextInv ==
  ResourcesInv /\ [ResourcesNext]_resourcesVars => ResourcesInv'
<1> SUFFICES ASSUME ResourcesInv, [ResourcesNext]_resourcesVars PROVE ResourcesInv'
  OBVIOUS
<1>1. /\ PrintInv /\ TopInv /\ ParseInv /\ IoInv /\ CodecInv
      /\ ReportInv /\ LineInv /\ ConvertInv /\ LifeInv /\ ReprInv /\ AttrInv /\ CompareInv
  BY DEF ResourcesInv
<1>2. IoInv'
  BY <1>1, StepOfEach, IoSteps, IoNextInv
<1>3. PrintInv' /\ TopInv' /\ ParseInv'
  BY <1>1, StepOfEach, PrintNextInv, TopNextInv, ParseNextInv
<1>4. CodecInv' /\ ReportInv' /\ LineInv' /\ ConvertInv'
  BY <1>1, StepOfEach, CodecNextInv, ReportNextInv, LineNextInv, ConvertNextInv
<1>5. LifeInv' /\ ReprInv' /\ AttrInv'
  BY <1>1, StepOfEach, LifeNextInv, ReprNextInv, AttrNextInv
<1>6. CompareInv'
  BY <1>1, StepOfEach, ComparePickInv DEF CompareInv
<1>7. QED
  BY <1>2, <1>3, <1>4, <1>5, <1>6 DEF ResourcesInv

LEMMA ResourcesInvariance == ResourcesSpec => []ResourcesInv
<1>1. ResourcesInit => ResourcesInv
  BY ResourcesInitInv
<1>2. ResourcesInv /\ [ResourcesNext]_resourcesVars => ResourcesInv'
  BY ResourcesNextInv
<1>3. QED
  BY <1>1, <1>2, PTL DEF ResourcesSpec

\* Whichever calls of pythonrun.c and of object.c fail, and in whatever order
\* they are made, what was taken is given back once: the error paths of
\* PyRun_*(), initstdio() and PyErr_PrintEx(), and the conversions, for any
\* set of exceptions, any number of initialisations and any value.  Not given
\* back are the file on the four ways out that ResourcesReturned names, a
\* string for which PyUnicode_READY() fails, and a message in 2.6.
THEOREM ReferencesReturnedHolds == ResourcesSpec => []ReferencesReturned
<1>1. ResourcesInv => ReferencesReturned
  BY TopInvReturns, IoInvRefs, CodecInvKept, ReportInvRefs, ConvertInvKeeps
     DEF ResourcesInv, TopInv, ReferencesReturned
<1>2. QED
  BY <1>1, ResourcesInvariance, PTL

\* parsetok() returns a whole tree or a reason, and each string it read has
\* one owner, for any source and any depth of indentation.
THEOREM TreeWholeHolds == ResourcesSpec => []TreeWhole
<1>1. ResourcesInv => TreeWhole
  BY ParseInvTree DEF ResourcesInv
<1>2. QED
  BY <1>1, ResourcesInvariance, PTL

\* No exception is shown twice on its way out, none is made up, and the caret
\* of a syntax error is under its character: PyErr_PrintEx(), PyErr_Display(),
\* print_exception_recursive(), print_error_text(), the top level and the
\* conversions, for any exceptions, causes and contexts that make cycles
\* included, any hooks and methods, and a line of any length.  None is lost
\* but those left to the caller, which the loop of the prompt discards, those
\* that would go to a sys.stderr that is lost or None, and those of a lookup
\* in an instance of a classic class.
THEOREM ExceptionsReportedHolds == ResourcesSpec => []ExceptionsReported
<1>1. ResourcesInv => ExceptionsReported
  BY PrintInvShows, TopInvReturns, ReportInvRefs, LineInvShows, ConvertInvKeeps
     DEF ResourcesInv, ExceptionsReported
<1>2. QED
  BY <1>1, ResourcesInvariance, PTL

\* Objects are destroyed once, at any depth: the stack of tp_dealloc() stays
\* below the limit of the trashcan and the trash is empty when it has returned;
\* a reference is counted for each place that has one; the list of all objects
\* goes through those alive and comes back; and the repr() of containers that
\* contain themselves ends, with nothing left in its list.  For any number of
\* objects, types and containers, and any contents.
THEOREM ObjectsSoundHolds == ResourcesSpec => []ObjectsSound
<1>1. ResourcesInv => ObjectsSound
  BY LifeInvShows, ReprInvShows DEF ResourcesInv, ObjectsSound
<1>2. QED
  BY <1>1, ResourcesInvariance, PTL

\* cmp(), the six operators and their reflections tell one order of two
\* objects, whichever protocols their types have, the fallback is total and
\* transitive over any three objects, of up to three types, and None, and 3.3
\* asks as 2.7 does: for any honest types and any keys.
THEOREM OrderCoherentHolds == ResourcesSpec => []OrderCoherent
<1>1. ResourcesInv => OrderCoherent
  BY CompareInvShows DEF ResourcesInv, OrderCoherent
<1>2. QED
  BY <1>1, ResourcesInvariance, PTL

\* What is written to an attribute is read back wherever it lives, a setattr()
\* that fails changes nothing, a descriptor is alive while its function runs,
\* whatever that does to the class, but for the one 2.7 borrows to write, and
\* dir() lists what getattr() finds: for any classes and any order of their
\* bases.
THEOREM AttributesCoherentHolds == ResourcesSpec => []AttributesCoherent
<1>1. ResourcesInv => AttributesCoherent
  BY DEF ResourcesInv, AttrInv, AttributesCoherent
<1>2. QED
  BY <1>1, ResourcesInvariance, PTL

=============================================================================
