------------------------------- MODULE Absent -------------------------------
\* What a variable of the console holds in place of a value: the null of the pages'
\* states.
CONSTANT None
=============================================================================
