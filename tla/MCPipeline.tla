----------------------------- MODULE MCPipeline -----------------------------
(* An instance of Pipeline for TLC: one sound manifest, and every manifest  *)
(* that differs from it in one respect (naming rows, archive rules, formats *)
(* and registry, declared roles, where the roles point).                    *)
EXTENDS Pipeline

CONSTANTS f1, f2, r1, r2, n1, n2

At2(d, l) == [dir |-> d, leaf |-> l]

Sound == [
  named    |-> TRUE,
  row      |-> [f \in {f1, f2} |-> IF f = f1 THEN r1 ELSE r2],
  ship     |-> [r \in {r1, r2} |-> IF r = r1 THEN n1 ELSE n2],
  approved |-> {n1, n2, f1, f2},
  formats  |-> {"cpl", "bom"},
  registry |-> TRUE,
  complete |-> TRUE,
  distinct |-> TRUE,
  files    |-> [r \in FileRole |->
                  At2(IF r = "validation_report" THEN "root" ELSE "out", r)],
  dirs     |-> [d \in DirRole |-> d],
  inputs   |-> {At2("root", "design")}]

MCManifests ==
  {Sound, [Sound EXCEPT !.distinct = FALSE]}
  \cup {[Sound EXCEPT !.row = w] : w \in [{f1, f2} -> {r1, r2, Excluded, NoRow}]}
  \cup {[Sound EXCEPT !.ship = w] : w \in [{r1, r2} -> {n1, n2}]}
  \cup {[Sound EXCEPT !.named = b, !.approved = a] :
          b \in BOOLEAN, a \in {{n1}, {f1, f2}, {f1}}}
  \cup {[Sound EXCEPT !.formats = f, !.registry = r, !.complete = c] :
          f \in SUBSET {"cpl", "bom"}, r \in BOOLEAN, c \in BOOLEAN}
  \cup {[Sound EXCEPT !.files[r] = None] :
          r \in FileRole \ {"fabrication_manifest"}}
  \cup {[Sound EXCEPT !.dirs[d] = w] :
          d \in DirRole, w \in {None, "root", "out", "gerber_dir"}}
  \cup {[Sound EXCEPT !.files[r] = p] : r \in FileRole,
          p \in {At2("root", "design"), At2("gerber_dir", n1),
                 At2("reports_dir", "erc"), At2("out", "bom")}}
=============================================================================
