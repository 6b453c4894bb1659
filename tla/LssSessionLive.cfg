SPECIFICATION FairSpec
CONSTANTS
    Client = {c1}
    MaxScrollback = 1
    BufSize = 1
    MaxOutput = 2
PROPERTIES OutputDrains UnresponsiveIsDropped DialIsAnswered
