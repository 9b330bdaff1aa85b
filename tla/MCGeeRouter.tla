---------------------------- MODULE MCGeeRouter ----------------------------
(* Instantiates GeeRouter with routes in the shape of 3-router/main.go and *)
(* of the examples in getRoute's comment: a static route, a ':' route and  *)
(* a '*' route, and requests that hit each of them or none.               *)
EXTENDS GeeRouter

Lit(w) == Seg("", w)

\* "/hello", "/p/:lang/doc", "/static/*filepath"
MCPatterns ==
    { <<Empty, Lit("hello")>>,
      <<Empty, Lit("p"), Seg(":", "lang"), Lit("doc")>>,
      <<Empty, Lit("static"), Seg("*", "filepath")>> }

\* "/hello", "/p/go/doc", "/static/css/geektutu.css", and "/p/go"
MCPaths ==
    { <<Empty, Lit("hello")>>,
      <<Empty, Lit("p"), Lit("go"), Lit("doc")>>,
      <<Empty, Lit("static"), Lit("css"), Lit("geektutu.css")>>,
      <<Empty, Lit("p"), Lit("go")>> }
=============================================================================
