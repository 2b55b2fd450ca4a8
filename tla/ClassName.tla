------------------------------ MODULE ClassName -------------------------------
(***************************************************************************)
(* gen_idl2c_name (duk-libdom-common.c): one pass over an IDL name in      *)
(* CamelCase that gives the name of its C class, lower case with           *)
(* underscores.  The class name is that of the generated file and part of  *)
(* every C function in it, so nothing else tells two interfaces apart.     *)
(* The buffer is allocated once, for twice the length of the IDL name.     *)
(*                                                                         *)
(* A character is a glyph and whether islower holds of it: a capital has   *)
(* the glyph of its small letter and is not low, digits and underscores    *)
(* are not low either.                                                     *)
(***************************************************************************)
EXTENDS Integers, Sequences

CONSTANT Letters  \* small letters and digits

Underscore == "underscore"
Glyphs == Letters \cup {Underscore}
Char == [glyph : Glyphs, low : BOOLEAN]

VARIABLES
  idlname,
  inc,      \* index in idlname of the next character
  name,     \* characters written so far
  waslower  \* the last character was lower case

namevars == <<idlname, inc, name, waslower>>

-----------------------------------------------------------------------------
(* on entry with the given name *)
InitWith(idl) == /\ idlname = idl
                 /\ inc = 1
                 /\ name = <<>>
                 /\ waslower = TRUE

NameInit == \E idl \in Seq(Char) : InitWith(idl)

Capital(i, g) == idlname[i] = [glyph |-> g, low |-> FALSE]

Html == /\ Len(idlname) >= 4
        /\ Capital(1, "h") /\ Capital(2, "t") /\ Capital(3, "m") /\ Capital(4, "l")

(* the prefix HTML ends here, unless the character after the next is low,
   as then the next one begins a word and gets its underscore as such *)
EndsHtml == inc = 5 /\ Html /\ (inc = Len(idlname) \/ ~idlname[inc + 1].low)

WithPrefix(out) == IF EndsHtml THEN Append(out, Underscore) ELSE out

(* the capital written last begins a word, unless that would leave a word
   of one letter between two underscores *)
BeginsWord(out) == /\ idlname[inc].low /\ ~waslower
                   /\ Len(out) <= 3 \/ out[Len(out) - 2] # Underscore

(* the last character moves on by one to make room for an underscore *)
Shifted(out) == Append([out EXCEPT ![Len(out)] = Underscore], out[Len(out)])

(* an empty name (the lexer strips the underscore of "_") gets no class
   name: First is disabled for ever *)
First == /\ name = <<>> /\ idlname # <<>>
         /\ name' = <<idlname[1].glyph>>
         /\ inc' = 2
         /\ UNCHANGED <<idlname, waslower>>

(* one turn of the loop *)
Copy == /\ name # <<>> /\ inc <= Len(idlname)
        /\ LET out == WithPrefix(name)
           IN  name' = Append(IF BeginsWord(out) THEN Shifted(out) ELSE out, idlname[inc].glyph)
        /\ waslower' = idlname[inc].low
        /\ inc' = inc + 1
        /\ UNCHANGED idlname

NameNext == First \/ Copy

NameSpec == NameInit /\ [][NameNext]_namevars

-----------------------------------------------------------------------------
(* bytes of the buffer *)
Allocated == 2 * Len(idlname)

Converted == name # <<>> /\ inc > Len(idlname)

(* The class name and its terminator stay within the buffer of twice the
   IDL name ("thats the absolute worst case"), although one turn of the
   loop may write three characters. *)
FitsBuffer == name # <<>> => Len(name) + 1 <= Allocated

(* However many capitals a name begins with, no underscore gets in front of
   them ("inserting a leading underscore is undesirable"). *)
FirstKept == name # <<>> => name[1] = idlname[1].glyph

(* at[i] is where the i-th character of the IDL name went: all are there, in
   their order, and what stands between them are underscores *)
Embeds(at, n) ==
  /\ at \in [1 .. n -> 1 .. Len(name)]
  /\ \A i, j \in 1 .. n : i < j => at[i] < at[j]
  /\ \A i \in 1 .. n : name[at[i]] = idlname[i].glyph
  /\ \A k \in 1 .. Len(name) : name[k] = Underscore \/ \E i \in 1 .. n : at[i] = k

(* The class name loses nothing but case, and adds nothing but underscores:
   two interfaces that differ in more never share a file and its functions.
   (Those that do not may: DOMString and DomString.) *)
LettersKept == name # <<>> => \E at : Embeds(at, inc - 1)

(* An IDL name of HTML and a capital gives a class name that begins with
   html_, by the one or by the other of the two rules for underscores. *)
HtmlPrefixed ==
  Converted /\ Html /\ Len(idlname) > 4 /\ ~idlname[5].low
    => Len(name) > 5 /\ name[1] = "h" /\ name[2] = "t" /\ name[3] = "m"
                     /\ name[4] = "l" /\ name[5] = Underscore
=============================================================================
