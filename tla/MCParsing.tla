------------------------------- MODULE MCParsing -------------------------------
(* Three files, two of them in one directory, in six languages; the names  *)
(* h and m are declared more than once and called from everywhere.         *)
EXTENDS Resolver

CONSTANTS f1, f2, f3

N(kind, name, of, parent) == [kind |-> kind, name |-> name, of |-> of, parent |-> parent]
Call(name, of, parent) == N("call", name, of, parent)

\* class C { m() { this.h(); this.x.h() }  h() { h() } }
MCClass == << N("class", "C", "", 0), N("method", "m", "", 1),
              Call("h", "member", 2), Call("h", "chain", 2),
              N("method", "h", "", 1), Call("h", "plain", 5) >>
\* function m() { const h = () => { m() }; C() }
MCNested == << N("function", "m", "", 0), N("funcvar", "h", "", 1),
               Call("m", "plain", 2), Call("C", "plain", 1) >>
\* class C extends K { x = class { m() { h() } } }
MCExpression == << N("class", "C", "", 0), N("extends", "K", "", 1),
                   N("block", "", "", 1), N("method", "m", "", 3), Call("h", "plain", 4) >>

\* func h() { m(); func() { x.m() }() }   func (t T) m() { h() }
MCGo == << N("function", "h", "", 0), Call("m", "plain", 1), N("block", "", "", 1),
           Call("m", "member", 3), N("method", "m", "T", 0), Call("h", "plain", 5) >>
\* type C struct; func init() twice
MCInits == << N("class", "C", "", 0), N("function", "init", "", 0), Call("m", "plain", 2),
              N("function", "init", "", 0), N("block", "", "", 4), Call("C", "plain", 5) >>

\* class K: def m(self): def h(): x.m()    class C: def m(self): ...
MCPython == << N("class", "K", "", 0), N("function", "m", "", 1), N("function", "h", "", 2),
               Call("h", "member", 3), N("class", "C", "", 0), N("function", "m", "", 5) >>
\* fn k() { || C() }   struct C
MCRust == << N("function", "k", "", 0), N("block", "", "", 1), Call("C", "plain", 2),
             N("class", "C", "", 0) >>
MCJava == << N("class", "K", "", 0), N("method", "m", "", 1), Call("h", "plain", 2),
             N("method", "h", "", 1) >>
MCCpp == << N("function", "h", "", 0), Call("h", "plain", 1), Call("m", "plain", 1) >>

Is(lang, tree) == [lang |-> lang, tree |-> tree]
MCFile == {f1, f2, f3}
MCDir == [f \in MCFile |-> IF f = f3 THEN "lib" ELSE "src"]
MCSources ==
  [f \in MCFile |->
     CASE f = f1 -> << Is("typescript", MCClass), Is("typescript", MCNested),
                       Is("typescript", MCExpression) >>
       [] f = f2 -> << Is("go", MCGo), Is("go", MCInits) >>
       [] f = f3 -> << Is("python", MCPython), Is("rust", MCRust),
                       Is("java", MCJava), Is("cpp", MCCpp) >>]
=============================================================================
