\* Three table slots: the initial hostthread and two created ones, with the
\* fairness the posix scheduler gives.
CONSTANT MAX_HOSTTHREADS = 3
SPECIFICATION FairSpec
INVARIANTS CountMatchesTable CleanerIsAlone RootsAreRight
PROPERTIES NoAllocationLost StopsTheWorld CleaningStarts WorldResumes
