---------------------------- MODULE MCRecordLog ----------------------------
EXTENDS RecordLog, StoreUniverse

MCDecisions == {original, mutated, superseder, rival, crossCase, unrelated}

MCEvents == {filed, refiled, secondAppeal, uncapped, oddFiling, evidence, review, forkedReview, upheld, usurped,
             reversed, earlyReversal, withdrawn, tooLate, afterAdded, beyondCap}
=============================================================================
