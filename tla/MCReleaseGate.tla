----------------------------- MODULE MCReleaseGate ----------------------------
EXTENDS ReleaseGate, TLC
CONSTANTS i1, i2, whole1, whole2, unattested

Whole(i) == [platforms |-> {i}, attested |-> [j \in {i1, i2} |-> IF j = i THEN Required ELSE {}]]

(* Two proper indexes, and one whose attestations are of something else.   *)
MCManifest == [x \in {whole1, whole2, unattested} |->
    CASE x = whole1 -> Whole(i1) [] x = whole2 -> Whole(i2)
      [] x = unattested -> [platforms |-> {i1}, attested |-> Whole(i2).attested]]

Entry(type, id, expires) ==
    [type |-> type, id |-> id, paths |-> {"Dockerfile"}, expires |-> expires]

MCExceptions == <<{Entry("image_vulnerability", "a", 0), Entry("configuration", "c", 1)},
                  {Entry("python_dependency", "a", 1)}>>

Finding(type, subject, id, severity, path) ==
    [type |-> type, subject |-> subject, id |-> id, severity |-> severity,
     fixed |-> TRUE, path |-> path]

MCFindings == {Finding("image_vulnerability", i1, "a", "HIGH", ""),
               Finding("configuration", 1, "c", "HIGH", "infra")}

Plain == [privileged |-> FALSE, hostNamespaces |-> {}, cap_add |-> {}, unconfined |-> {},
          binds |-> {[sensitive |-> FALSE, readOnly |-> TRUE]}]

MCServices == <<{Plain}, {Plain}>>

Symmetry == Permutations(Runs)
===============================================================================
