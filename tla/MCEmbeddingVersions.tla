------------------------ MODULE MCEmbeddingVersions -------------------------
EXTENDS EmbeddingVersions, TLC

CONSTANTS e1, e2, e3

\* docs/versioned_embedding.md: one active version, then shadows to try.  The
\* first may be retired by hand as well.
OneActiveThenShadows ==
  {<<e1, "active">>, <<e1, "retired">>, <<e2, "shadow">>, <<e3, "shadow">>}

\* The shadows are registered alike
Alike == Permutations({e2, e3})
=============================================================================
