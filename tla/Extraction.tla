------------------------------ MODULE Extraction ------------------------------
(***************************************************************************)
(* What internal/parser takes from the syntax tree of a file: the symbols  *)
(* it declares and the references that the resolver is to resolve.         *)
(*                                                                         *)
(* A tree is the sequence of its nodes in the order of the text.  A node   *)
(* is [kind, name, of, parent]: kind is the construct, the same word for   *)
(* every grammar; name is what is declared or referred to; of is the       *)
(* receiver of a Go method, the form of a callee ("plain" f(), "member"    *)
(* x.f(), "chain" x.y.f()), "" otherwise; parent is the index of the       *)
(* node around it, 0 at the top.  What lies under a function, a method or  *)
(* a variable is its body or its value.                                    *)
(***************************************************************************)
EXTENDS Naturals, Sequences, FiniteSets, FiniteSetsExt, SequencesExt

\* The nodes come in the order of the text, each after the node around it.
IsTree(tree) ==
  tree \in Seq(ToSet(tree)) /\ \A i \in DOMAIN tree : tree[i].parent \in 0 .. i - 1

\* A case of an extractor's switch: the kind of the graph node, whether the
\* walk returns there, and whether extractCalls is applied to it.
Case(kind, returns, calls) == [kind |-> kind, returns |-> returns, calls |-> calls]
Type(kind) == Case(kind, FALSE, FALSE)

\* TypeScript and JavaScript.  Only the body of a class is walked; a variable
\* counts when its value is a function or a class expression (kindOfVarDecl).
extractTS ==
  [function  |-> Case("Function", FALSE, TRUE),
   method    |-> Case("Method", TRUE, TRUE),
   class     |-> Type("Class"),
   interface |-> Type("Interface"),
   funcvar   |-> Case("Function", FALSE, TRUE),
   classvar  |-> Case("Class", FALSE, TRUE)]

extractGo ==
  [function  |-> Case("Function", TRUE, TRUE),
   method    |-> Case("Method", TRUE, TRUE),
   class     |-> Type("Class"),
   interface |-> Type("Interface"),
   type      |-> Type("Type")]

\* A method is a function definition below a class definition.
extractPython ==
  [function |-> Case("Function", TRUE, TRUE), class |-> Type("Class")]

extractJava ==
  [method    |-> Case("Method", TRUE, TRUE),
   class     |-> Type("Class"),
   interface |-> Type("Interface")]

extractRust ==
  [function  |-> Case("Function", TRUE, TRUE),
   class     |-> Type("Class"),
   interface |-> Type("Interface")]

extractCPP ==
  [function |-> Case("Function", TRUE, TRUE), class |-> Type("Class")]

\* The switch of parse.
extractor ==
  [typescript |-> extractTS, go |-> extractGo, python |-> extractPython,
   java |-> extractJava, rust |-> extractRust, cpp |-> extractCPP]

\* calleeText knows identifiers and the member expressions of TypeScript, and
\* extractCallsPython takes any text; the Java grammar has no call_expression.
CalleeForms(lang) ==
  CASE lang \in {"typescript", "python"} -> {"plain", "member", "chain"}
    [] lang \in {"go", "rust", "cpp"} -> {"plain"}
    [] lang = "java" -> {}
-----------------------------------------------------------------------------
HasCase(lang, node) == node.kind \in DOMAIN extractor[lang]

Returns(lang, node) == HasCase(lang, node) /\ extractor[lang][node.kind].returns

\* The indices around i.
Around(tree, i) ==
  LET above[j \in 0 .. Len(tree)] ==
        IF j = 0 THEN {} ELSE above[tree[j].parent] \cup ({tree[j].parent} \ {0})
  IN above[i]

\* The nodes that walk visits: it goes on below a node unless it returns there.
Walked(lang, tree) ==
  { i \in DOMAIN tree : \A up \in Around(tree, i) : ~Returns(lang, tree[up]) }

\* The elements of fs.Nodes, as indices into the tree.
Declared(lang, tree) == { i \in Walked(lang, tree) : HasCase(lang, tree[i]) }

\* currentClassUID: the innermost class declaration around i, 0 if there is
\* none.  Class expressions are passed over.
CurrentClass(lang, tree, i) ==
  LET classes == { j \in Around(tree, i) : tree[j].kind = "class" }
  IN  IF lang = "typescript" /\ classes # {} THEN Max(classes) ELSE 0

\* graph.NodeUID.  The name of a method is qualified in Go and in TypeScript.
NodeUID(file, lang, tree, i) ==
  LET class == CurrentClass(lang, tree, i)
      method == tree[i].kind = "method"
  IN [file |-> file,
      qualifier |-> CASE method /\ class # 0 -> tree[class].name
                      [] method /\ lang = "go" -> tree[i].of
                      [] OTHER -> "",
      name |-> tree[i].name,
      kind |-> extractor[lang][tree[i].kind].kind]

Ref(from, type, name, of, to) ==
  [from |-> from, type |-> type, name |-> name, of |-> of, to |-> to]

\* The imports that stand for the class of a method.
MemberRefs(file, lang, tree) ==
  { Ref(NodeUID(file, lang, tree, i), "MEMBER_OF", "", "",
        NodeUID(file, lang, tree, CurrentClass(lang, tree, i))) :
      i \in { j \in Declared(lang, tree) :
                tree[j].kind = "method" /\ CurrentClass(lang, tree, j) # 0 } }

\* The calls that stand for the clauses of a class.
extractHeritage(file, lang, tree) ==
  { Ref(NodeUID(file, lang, tree, tree[i].parent),
        IF tree[i].kind = "extends" THEN "EXTENDS" ELSE "IMPLEMENTS",
        tree[i].name, "plain", "") :
      i \in { j \in DOMAIN tree : /\ lang = "typescript"
                                  /\ tree[j].kind \in {"extends", "implements"}
                                  /\ tree[j].parent \in Declared(lang, tree)
                                  /\ tree[tree[j].parent].kind = "class" } }

\* The nodes on which extractCalls is called.
Bodies(lang, tree) ==
  { i \in Declared(lang, tree) : extractor[lang][tree[i].kind].calls }

Understood(lang, node) == node.kind = "call" /\ node.of \in CalleeForms(lang)

\* Mutant: the walk does not go below the first level.
DirectCalls(file, lang, tree, i) ==
  { Ref(NodeUID(file, lang, tree, i), "CALLS", tree[j].name, tree[j].of, "") :
      j \in { k \in DOMAIN tree : i = tree[k].parent /\ Understood(lang, tree[k]) } }

\* The calls below i, whatever else lies between.
extractCalls(file, lang, tree, i) ==
  { Ref(NodeUID(file, lang, tree, i), "CALLS", tree[j].name, tree[j].of, "") :
      j \in { k \in DOMAIN tree : i \in Around(tree, k) /\ Understood(lang, tree[k]) } }

\* fs.Imports, then fs.Calls, each reference once: repeated ones give the same
\* edge.  Other imports are recorded and never looked up.
Refs(file, lang, tree) ==
  SetToSeq(MemberRefs(file, lang, tree)) \o
  SetToSeq(extractHeritage(file, lang, tree) \cup
           UNION { extractCalls(file, lang, tree, i) : i \in Bodies(lang, tree) })
=============================================================================
