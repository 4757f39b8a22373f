------------------------------ MODULE ParseTok ------------------------------
(***************************************************************************)
(* patches/2.6/files/Parser/parsetok.c: tokens go from the tokenizer to    *)
(* the parser, and strings from the object domain into its tree.  The      *)
(* tokenizer and the parser are external: the former gives the tokens of   *)
(* a source that may end anywhere, and the latter takes or refuses them.   *)
(***************************************************************************)
EXTENDS Integers

CONSTANTS
  MaxTokens,  \* bound: tokens the tokenizer reads before the source ends
  MaxIndent   \* bound: how deep the source is indented

ASSUME ParseTokAssumption == {MaxTokens, MaxIndent} \subseteq Nat

VARIABLES
  tok,    \* the tokenizer: tok->indent, pendin, encoding; what it read last
  ps,     \* the parser, and the locals of parsetok()
  perr,   \* perrdetail: the error, and whether there is a text
  blocks  \* strings, encodings and texts allocated and not freed

parseVars == <<tok, ps, perr, blocks>>

NoTok == [live |-> FALSE, read |-> 0, eof |-> FALSE, indent |-> 0, pendin |-> 0,
          last |-> "none", encoding |-> FALSE]

\* tree: strings in p_tree; last, open: what the parser was given; dropped:
\* was a whole tree forgotten?
NoParser == [at |-> "idle", imply |-> TRUE, started |-> FALSE, type |-> "none",
             last |-> "none", open |-> 0, str |-> FALSE, tree |-> 0,
             n |-> FALSE, dropped |-> FALSE]

ParseInit ==
  /\ tok = NoTok
  /\ ps = NoParser
  /\ perr = [error |-> "E_OK", text |-> FALSE]
  /\ blocks = [strings |-> 0, encodings |-> 0, texts |-> 0]

\* Mutant: the first error is kept, and the end of the parser is one.
FailsOnce(error) ==
  perr' = IF perr.error = "E_OK" THEN [perr EXCEPT !.error = error] ELSE perr

\* err_ret->error
Fails(error) == perr' = [perr EXCEPT !.error = error]

PyTokenizer_Free ==
  /\ tok' = NoTok
  /\ blocks' = [blocks EXCEPT !.encodings = IF tok.encoding THEN @ - 1 ELSE @]

\* PyParser_ParseStringFlagsFilenameEx(), or ...ParseFileFlagsEx(), and
\* initerr().  imply is the absence of PyPARSE_DONT_IMPLY_DEDENT.
StartParse(imply, encoding) ==
  /\ ps.at = "idle"
  /\ \/ /\ tok' = [NoTok EXCEPT !.live = TRUE, !.encoding = encoding]
        /\ blocks' = [blocks EXCEPT !.encodings = IF encoding THEN 1 ELSE 0]
        /\ ps' = [NoParser EXCEPT !.at = "new", !.imply = imply]
        /\ UNCHANGED perr
     \/ /\ ps' = [NoParser EXCEPT !.at = "returned"]
        /\ Fails("E_DECODE") \/ Fails("E_NOMEM")
        /\ UNCHANGED <<tok, blocks>>

\* PyParser_New()
NewParser ==
  /\ ps.at = "new"
  /\ \/ ps' = [ps EXCEPT !.at = "get"] /\ UNCHANGED <<tok, perr, blocks>>
     \/ ps' = [ps EXCEPT !.at = "returned"] /\ Fails("E_NOMEM") /\ PyTokenizer_Free

-----------------------------------------------------------------------------
(* Tokens.                                                                 *)

Takes(type, started) ==
  ps' = [ps EXCEPT !.at = "alloc", !.type = type, !.started = started]

\* PyTokenizer_Get() finds the token `type`, which comes at the beginning of
\* a line when it is about indentation.
Reads(type) ==
  /\ tok.pendin = 0 /\ ~tok.eof /\ tok.read < MaxTokens        \* bound
  /\ CASE type = "NAME" -> TRUE
       [] type = "NEWLINE" -> tok.last = "NAME"
       [] type = "INDENT" -> tok.last \in {"none", "NEWLINE"} /\ tok.indent < MaxIndent
       [] type = "DEDENT" -> tok.last \in {"NEWLINE", "DEDENT"} /\ tok.indent > 0
  /\ tok' = [tok EXCEPT !.read = @ + 1, !.last = type,
                        !.indent = CASE type = "INDENT" -> @ + 1
                                     [] type = "DEDENT" -> @ - 1
                                     [] OTHER -> @]

\* ... or a dedent that is due: all of them when the source ends after a line.
Dedents ==
  \/ /\ tok.pendin < 0
     /\ tok' = [tok EXCEPT !.pendin = @ + 1]
  \/ /\ tok.pendin = 0 /\ ~tok.eof
     /\ tok.last = "NEWLINE" /\ tok.indent > 0
     /\ tok' = [tok EXCEPT !.eof = TRUE, !.pendin = 1 - tok.indent, !.indent = 0]

GetToken ==
  /\ ps.at = "get"
  /\ \/ \E type \in {"NAME", "NEWLINE", "INDENT", "DEDENT"} :
          Reads(type) /\ Takes(type, TRUE) /\ UNCHANGED perr
     \/ Dedents /\ Takes("DEDENT", TRUE) /\ UNCHANGED perr
     \/ /\ ~tok.eof                                            \* ERRORTOKEN
        /\ ps' = [ps EXCEPT !.at = "end"]
        /\ Fails("E_TOKEN") \/ Fails("E_EOF")
        /\ UNCHANGED tok
  /\ UNCHANGED blocks

\* Mutant: tok->indent stays, and the dedents come again.
ImpliedAgain(t) == [t EXCEPT !.pendin = -t.indent]

\* "Add the right number of dedent tokens".
Implied(t) == [t EXCEPT !.pendin = -t.indent, !.indent = 0]

\* ENDMARKER, when anything came before it, becomes a NEWLINE, and dedents
\* for what is indented still come after it.
EndMarker ==
  /\ ps.at = "get"
  /\ tok.pendin = 0
  /\ tok.eof \/ tok.last \in {"none", "NAME"} \/ (tok.last = "NEWLINE" /\ tok.indent = 0)
  /\ IF ps.started
     THEN /\ Takes("NEWLINE", FALSE)
          /\ tok' = IF ps.imply THEN Implied([tok EXCEPT !.eof = TRUE])
                    ELSE [tok EXCEPT !.eof = TRUE]
     ELSE /\ Takes("ENDMARKER", TRUE)
          /\ tok' = [tok EXCEPT !.eof = TRUE]
  /\ UNCHANGED <<perr, blocks>>

\* The token's string is copied to a block of the object domain.
AllocString ==
  /\ ps.at = "alloc"
  /\ \/ /\ ps' = [ps EXCEPT !.at = "add", !.str = TRUE]
        /\ blocks' = [blocks EXCEPT !.strings = @ + 1]
        /\ UNCHANGED perr
     \/ ps' = [ps EXCEPT !.at = "end"] /\ Fails("E_NOMEM") /\ UNCHANGED blocks
  /\ UNCHANGED tok

\* The tree has the string of a token that was added, the last one too.
Consumed(error) == error \in {"E_OK", "E_DONE"}

\* PyParser_AddToken(), which refuses the end while a block is open, and is
\* done after it, or after a line when it was asked for one.
AddToken ==
  /\ ps.at = "add"
  /\ \E error \in {"E_OK", "E_DONE", "E_SYNTAX", "E_NOMEM"} :
       LET opened == CASE ps.type = "INDENT" -> ps.open + 1
                       [] ps.type = "DEDENT" -> ps.open - 1
                       [] OTHER -> ps.open
           kept == error \in {"E_OK", "E_DONE"}
       IN /\ error = "E_OK" => ps.type # "ENDMARKER"
          /\ error = "E_DONE" => ps.type \in {"NEWLINE", "ENDMARKER"} /\ opened = 0
          /\ Fails(error)
          /\ blocks' = [blocks EXCEPT !.strings = IF Consumed(error) THEN @ ELSE @ - 1]
          /\ ps' = [ps EXCEPT !.at = IF error = "E_OK" THEN "get" ELSE "end",
                              !.str = FALSE, !.last = ps.type, !.open = opened,
                              !.tree = IF kept THEN @ + 1 ELSE @]
  /\ UNCHANGED tok

-----------------------------------------------------------------------------
(* The end.                                                                *)

\* Mutant: the parser frees the tree it has handed over.
DeletedAlways(done) == ps.tree

\* PyParser_Delete() frees the strings of p_tree, NULL once it was taken.
Deleted(done) == IF done THEN 0 ELSE ps.tree

EndParse ==
  /\ ps.at = "end"
  /\ LET done == perr.error = "E_DONE"
     IN /\ ps' = [ps EXCEPT !.at = "finish", !.n = done, !.tree = IF done THEN @ ELSE 0]
        /\ blocks' = [blocks EXCEPT !.strings = @ - Deleted(done)]
  /\ UNCHANGED <<tok, perr>>

\* Without a tree there is a text, if there is memory for it; an end of file
\* in the first line says more than any other error.
Explain ==
  /\ ps.at = "finish" /\ ~ps.n
  /\ \E error \in {perr.error} \cup (IF tok.eof THEN {"E_EOF"} ELSE {}), text \in BOOLEAN :
       /\ perr' = [error |-> error, text |-> text]
       /\ blocks' = [blocks EXCEPT !.texts = IF text THEN 1 ELSE 0]
  /\ ps' = [ps EXCEPT !.at = "free"]
  /\ UNCHANGED tok

\* The encoding is freed, and the tokenizer does not know it any more.
HandedOver(t) == [t EXCEPT !.encoding = FALSE]

\* The node of the encoding, with a string of its own, goes on top of the
\* tree; without memory for it the tree is forgotten.
AddEncoding ==
  /\ ps.at = "finish" /\ ps.n
  /\ \/ /\ ~tok.encoding
        /\ ps' = [ps EXCEPT !.at = "free"]
        /\ UNCHANGED <<tok, perr, blocks>>
     \/ /\ tok.encoding
        /\ tok' = HandedOver(tok)
        /\ blocks' = [blocks EXCEPT !.strings = @ + 1, !.encodings = @ - 1]
        /\ ps' = [ps EXCEPT !.at = "free", !.tree = @ + 1]
        /\ UNCHANGED perr
     \/ /\ tok.encoding
        /\ Fails("E_NOMEM")
        /\ ps' = [ps EXCEPT !.at = "free", !.n = FALSE, !.tree = 0, !.dropped = TRUE]
        /\ UNCHANGED <<tok, blocks>>

FreeTokenizer ==
  /\ ps.at = "free"
  /\ PyTokenizer_Free
  /\ ps' = [ps EXCEPT !.at = "returned"]
  /\ UNCHANGED perr

ParseNext ==
  \/ \E imply, encoding \in BOOLEAN : StartParse(imply, encoding)
  \/ NewParser \/ GetToken \/ EndMarker \/ AllocString \/ AddToken
  \/ EndParse \/ Explain \/ AddEncoding \/ FreeTokenizer

-----------------------------------------------------------------------------
\* A string belongs to the tree, or to parsetok(), and is freed once by the
\* one it belongs to; so is the encoding.  What is left at the end is the
\* tree that is returned, but for the one that is forgotten (parsetok.c:251).
StringsOwned ==
  /\ blocks.encodings = IF tok.encoding THEN 1 ELSE 0
  /\ ~ps.dropped => blocks.strings = ps.tree + (IF ps.str THEN 1 ELSE 0)
  /\ ps.at = "returned" => ~tok.live /\ (~ps.n => ps.tree = 0)

\* A source that ends in the middle of a line, or of a block, is parsed like
\* one that does not: when the parser is given the end it has just had a
\* newline, or nothing, and a dedent for every indent, unless the caller asked
\* for none; and never more dedents than indents (parsetok.c:164-177).
EndComplete ==
  /\ ps.open >= 0
  /\ ps.at = "add" /\ ps.type = "ENDMARKER" =>
       ps.last \in {"none", "NEWLINE"} /\ (ps.imply => ps.open = 0)

\* The error says which it is: a tree, or why there is none.
ErrorSaysWhy ==
  ps.at = "returned" => (ps.n <=> perr.error = "E_DONE") /\ perr.error # "E_OK"

=============================================================================
