------------------------------- MODULE BindingFile -------------------------------
(***************************************************************************)
(* A binding file read: the lexer of Include hands statements to the       *)
(* parser of BindingAst, which decides when the lexer goes on.             *)
(*                                                                         *)
(* The two meet in one place that is easy to get wrong.  A method is       *)
(* attached to its class together with the file and line it was written    *)
(* at, from which the #line directive of the generated source is made.     *)
(* When it ends with a block of code, the grammar cannot tell that the     *)
(* block is complete until it has seen the next token, and by then the     *)
(* lexer may have entered another file or come back from one.              *)
(***************************************************************************)
EXTENDS Include

CONSTANTS Classes, Types, Idents, MaxStatements   \* of BindingAst

VARIABLES
  written,   \* the statement that stands at a line, known once it is read
  inparser,  \* statements shifted, not reduced: at most a method and the next
  read, nodes, visible, parse,  \* the variables of BindingAst
  located    \* file and line kept with each statement reduced

Ast == INSTANCE BindingAst WITH text <- read, pc <- parse

astvars == <<read, nodes, visible, parse>>
allvars == <<vars, written, inparser, astvars, located>>

-----------------------------------------------------------------------------
FileStart == /\ Start
             /\ Ast!Init
             /\ written = << >>
             /\ inparser = <<>>
             /\ located = <<>>

FileInit == text \in Texts /\ FileStart

(* the token at hand belongs to a method that more code may follow *)
MayGoOn(item) == item.block

(* the parser asks for a token *)
Asks == /\ parse = "parse" /\ pc = "lex"
        /\ inparser = <<>> \/ (Len(inparser) = 1 /\ MayGoOn(inparser[1]))

(* a statement is its tokens; @1 is the location of the first of them *)
Shift(s, block) ==
  /\ Asks /\ Len(read) + Len(inparser) < MaxStatements
  /\ Token
  /\ LET here == <<Top.file, Top.next>>
     IN  IF here \in DOMAIN written
         THEN s = written[here].s /\ block = written[here].block /\ UNCHANGED written
         ELSE /\ block => s.kind = "method"
              /\ written' = [h \in DOMAIN written \cup {here} |->
                    IF h = here THEN [s |-> s, block |-> block] ELSE written[h]]
  /\ inparser' = Append(inparser, [s |-> s, block |-> block, at |-> Last(tokens')])
  /\ UNCHANGED <<astvars, located>>

(* directives and ends of files are dealt with inside the lexer *)
LexerStep == /\ Asks
             /\ Directive
             /\ UNCHANGED <<written, inparser, astvars, located>>

(* mistake: the location the lexer has reached is kept *)
LocationReached(item) == [file |-> filename, line |-> yylineno]

(* @1.filename and @1.first_line, copied when the token was shifted *)
Location(item) == item.at

(* the statement is complete: its action runs *)
Reduce ==
  /\ parse = "parse" /\ inparser # <<>>
  /\ MayGoOn(Head(inparser)) => Len(inparser) = 2 \/ pc = "eof"
  /\ LET s == Head(inparser).s
     IN  \/ Ast!BindingStatement(s) \/ Ast!ClassStatement(s)
         \/ Ast!ManufactureClass(s) \/ Ast!UpdateClass(s)
  /\ located' = Append(located, Location(Head(inparser)))
  /\ inparser' = Tail(inparser)
  /\ UNCHANGED <<vars, written>>

SyntaxError == /\ Asks /\ Ast!Abort
               /\ UNCHANGED <<vars, written, inparser, located>>

Accept == /\ pc = "eof" /\ inparser = <<>>
          /\ IF read = <<>> THEN Ast!Abort ELSE Ast!EndOfFile
          /\ UNCHANGED <<vars, written, inparser, located>>

Parse == \/ \E s \in Ast!Statement, block \in BOOLEAN : Shift(s, block)
         \/ LexerStep \/ Reduce \/ Accept

FileNext == Parse \/ SyntaxError

(* the parser calls the lexer until one of them ends, and neither waits; that
   the text is wrong somewhere is not owed to anyone *)
FileSpec == FileInit /\ [][FileNext]_allvars /\ WF_allvars(Parse)

-----------------------------------------------------------------------------
(* What the AST holds of a file read to its end are the statements of all
   the files, in textual order with includes in place, each with the file
   and line it was written at. *)
StatementsLocated == parse = "parsed" => located = Expanded[MaxOpen - 1][Root]

(* No statement is lost between the lexer and the AST, and each is kept with
   the place at which it stands, however far the lexer was ahead: at most one
   token, and it is in the parser. *)
StatementsAsWritten ==
  /\ Len(located) = Len(read)
  /\ \A k \in DOMAIN read : read[k] = written[<<located[k].file, located[k].line>>].s
  /\ tokens = located \o [k \in DOMAIN inparser |-> inparser[k].at]

(* Author code is found through every nesting of files (BindingAst). *)
MethodsReachClassIfCustomary == Ast!MethodsReachClassIfCustomary
FirstMethodWins == Ast!FirstMethodWins

(* Whatever includes whatever, the parse comes to an end. *)
ParseEnds == <>(parse \in {"parsed", "failed"} \/ pc = "exit")
=============================================================================
