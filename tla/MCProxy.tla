------------------------------- MODULE MCProxy -------------------------------
(* Two requests that share the cache: one asks for either of two chat      *)
(* completions, the other for one of them, routed to the same provider or  *)
(* to the fallback, or for anything else; the local server transcribes.    *)
(* ("responses" are left out: they differ from "stream" in nothing here.)  *)
EXTENDS Proxy, TLC

CONSTANTS r1, r2, p, f, a, b

Ask(kind, prompt, provider) ==
  [kind |-> kind, prompt |-> prompt, provider |-> provider]

MCAsks ==
  (r1 :> {Ask("chat", a, p)}) @@
  (r2 :> {Ask("chat", b, p), Ask("chat", a, f)} \cup
         {Ask(kind, a, p) : kind \in {"stream", "embedding"} \cup Media})
=============================================================================
