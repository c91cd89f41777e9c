------------------------- MODULE MCFeedbackLearning -------------------------
EXTENDS FeedbackLearning

CONSTANTS c1, c2, x1, x2, p1, p2

\* One pattern for each experience; p2 was in the context itself.
TwoMembers == {<<x1, p1>>, <<x2, p2>>}
=============================================================================
