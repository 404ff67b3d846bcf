------------------------------ MODULE Expander ------------------------------
(***************************************************************************)
(* Calls of macros (crates/cj-sema/src/expander.rs): each that is found is *)
(* expanded by the library of the project's macro package, by the template *)
(* a macro of the file quotes, or told.                                    *)
(*                                                                         *)
(* A call is its name and the tokens of its arguments.  What the library   *)
(* is and does comes from the environment: none is built ("none"), or one  *)
(* is and the call fails ("fails") or works ("works").  MacroCache and     *)
(* MacroRuntime describe how it gets there.                                *)
(***************************************************************************)
EXTENDS Package

Libraries == {"none", "fails", "works"}
SourceMacros == {"sourceFile", "sourceLine", "sourcePackage"}

\* The last macro of a name.
Macros(file) ==
    LET macros == OfKind(file.decls, "macro")
        OfName(n) == {i \in DOMAIN macros : macros[i][3] = n}
    IN [n \in {macros[i][3] : i \in DOMAIN macros} |-> macros[Max(OfName(n))]]

-----------------------------------------------------------------------------
\* Where calls are looked for: not in parentheses, conditions or returns, and
\* in no member and not in main.
ExpandedKinds == {"call", "binary", "unary", "block"}

Dotted == "." \* a name of several words, which no macro of a file has
DeclCalls(d) ==
    LET In(es) == MapSeq(LAMBDA e : [name |-> e[2], args |-> e[3]], OfKind(ReachedIn(ExpandedKinds, es), "macro"))
        name == IF d[1] = "expand" /\ Len(d[2]) = 1 THEN d[2][1] ELSE Dotted
    IN CASE d[1] = "expand" -> << [name |-> name, args |-> d[3]] >>
         [] d[1] = "var" -> In(Initial(d))
         [] d[1] \in {"func", "macro"} -> In(Statements(d))
         [] OTHER -> << >>
MacroCalls(file) == FlatMap(DeclCalls, file.decls)

-----------------------------------------------------------------------------
\* The template of a macro: the parts of the first quote among its statements.
Template(def) ==
    LET quotes == OfKind(Statements(def), "quote")
    IN IF quotes = << >> THEN << >> ELSE quotes[1][2]

\* A token that is a parameter gives way to the argument in its place; a call
\* within stays a call; what is interpolated is left out.
Substituted(def, args) ==
    LET params == Params(def)
        IsParamName(t) == \E i \in DOMAIN params : params[i][2] = t
        Argument(t) == args[Max({i \in DOMAIN params : params[i][2] = t})]
        Part(x) ==
            CASE x[1] = "token" -> <<IF IsParamName(x[2]) THEN Argument(x[2]) ELSE x[2]>>
              [] x[1] = "macro" -> <<"@", x[2], "(">> \o x[3] \o <<")">>
              [] OTHER -> << >>
    IN FlatMap(Part, Template(def))

ArityDiffers(def, args) == Template(def) # << >> /\ Len(Params(def)) # Len(args)

ExpandUserMacro(def, args) ==
    IF ArityDiffers(def, args) THEN [text |-> << >>, diags |-> << <<"macro arity", def[3]>> >>]
    ELSE [text |-> Substituted(def, args),
          diags |-> MapSeq(LAMBDA x : <<"nested quote">>, OfKind(Template(def), "quote"))]

Placeholder(call) == <<"macro", call.name, "failed">>
FallbackExpansion(macros, call) ==
    LET text == IF call.name \in DOMAIN macros THEN ExpandUserMacro(macros[call.name], call.args).text ELSE << >>
    IN IF text = << >> THEN Placeholder(call) ELSE text

\* expand_one_cached.
Expanded(call, text) == [expansions |-> << [call |-> call, text |-> text] >>, diags |-> << >>]
ByLibrary(library, macros, call) ==
    Expanded(call, IF library = "works" THEN <<"result", call.name>> ELSE FallbackExpansion(macros, call))
ByTemplate(macros, call) ==
    LET out == ExpandUserMacro(macros[call.name], call.args)
    IN [Expanded(call, out.text) EXCEPT !.diags = out.diags]
NotExpanded(call) == [expansions |-> << >>, diags |-> << <<"unresolved macro", call.name>> >>]

ExpandOneLibraryOnly(library, macros, call) == \* mutant
    IF call.name \in SourceMacros THEN Expanded(call, <<call.name>>)
    ELSE IF library # "none" THEN ByLibrary(library, macros, call) ELSE NotExpanded(call)

ExpandOne(library, macros, call) ==
    CASE call.name \in SourceMacros -> Expanded(call, <<call.name>>)
      [] call.name \notin SourceMacros /\ library # "none" -> ByLibrary(library, macros, call)
      [] call.name \notin SourceMacros /\ library = "none" /\ call.name \in DOMAIN macros ->
            ByTemplate(macros, call)
      [] OTHER -> NotExpanded(call)

\* Expansions in the order of the calls, and what is told of them.
ExpandFile(file, library) ==
    LET each == MapSeq(LAMBDA c : ExpandOne(library, Macros(file), c), MacroCalls(file))
    IN [expansions |-> FlatMap(LAMBDA x : x.expansions, each), diags |-> FlatMap(LAMBDA x : x.diags, each)]
=============================================================================
