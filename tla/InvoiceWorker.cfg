\* Three bills over two years: some numbered in one year, some in both, with
\* requests that cross the turn of the year.
SPECIFICATION Spec
CONSTANTS
  Keys = {b1, b2, b3}
  LastYear = 1
  MaxSeq = 3
  NoKey = NoKey
INVARIANTS TypeOK MapsAgree RepliesAgree
PROPERTIES ImplementsGaplessNumbers RoutedIsAnswered
