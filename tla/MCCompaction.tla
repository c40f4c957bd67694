---------------------------- MODULE MCCompaction ----------------------------
EXTENDS Compaction

\* A rule that is out of step is not followed any further.
OnCourse == ~derailed
=============================================================================
