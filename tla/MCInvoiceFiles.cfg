CONSTANTS
    h1 = h1
    h2 = h2
    plain = plain
    better = better
    nonsense = nonsense
    numbered = numbered
    wordy = wordy
    Handlers = {h1, h2}
    Tokens = {t1}
    NoToken = NoToken
    Files = {plain, better, nonsense, numbered, wordy}
    NoFile = NoFile
    NotCSV = {nonsense}
    Coded = {numbered}
    Unpayable = {wordy}

SPECIFICATION Spec
SYMMETRY Symmetry

INVARIANT TypeOK
PROPERTY PaidIsApproved
PROPERTY PaidAsShown
