SPECIFICATION MCSpec
CONSTANTS
  WordBits = 9
  max_args = 3
  max_files = 4
  Streams = {1, 2}
  Lines = 1
  MaxCtrlG = 1
  OutSize = 5
  InSize = 3
  MaxOut = 6
  NCHANNEL = 3
  Chans = {1, 2}
  WordChars = 2
  Tries = 2
  MaxFile = 5
  NPages = 6
  Arrays = {1, 2}
  Blocks = {1, 2, 3}
  MaxText = 2
  Names = {n1, n2}
  MaxDate = 2
  MaxPak = 3
  MaxJobs = 3
  Types <- mTypes
  Eof = "eof"
  States = {1,2,3,4,5,6,7,8}
  Start = 1
  Rules <- mRules
  r1 <- mr1
  r2 <- mr2
  Act <- mAct
  Goto <- mGoto
  Depth <- mDepth
  Sentences <- mSentences
  must = 3
  tbsize = 9
  pssize = 7
  CNames <- mCNames
  Keywords = {"if"}
  CStrings = {"s"}
  Programs <- mPrograms
  Included <- mIncluded
  maxdepth = 5
  maxargs = 3
  margbsz = 30
  maxicb = 2
  mcdsz = 60
  Code <- mCode
  CLetters <- mLetters
  LetterDigits <- mLetterDigits
  Upper <- mUpper
  CharFiles <- mCharFiles
  Hash <- mHash
  cssiz = 60
  hshsize = 5
  Formats <- mFormats
  TableSizes <- mTableSizes
  Errors <- mErrors
  Symbols <- mSymbols
  cstore <- mcstore
  cssize = 10
  breakColumn = 5
  lastColumn = 8
  TTSIZE = 46
  TableP = 100
  TableC = 300
  tsize <- mtsize
  talign <- mtalign
  calign <- mcalign
  tpoint <- mtpoint
  Lengths = {2}
  Members = {1}
  TypeNames = {7}
  MaxMembers = 2
  UsedTags = {0, 3, 9, 10, 11, 12, 13}
  Externals <- mExternals
  Functions <- mFunctions
  Formals_ <- mFormals
  Locals_ <- mLocals
  Uses = {"x", "b"}
  Labels_ = {"l"}
  Size0 <- mSize0
  Align0 <- mAlign0
  stsize = 7
  sv_area_sz = 3
  MAXDIMS = 2
  MaxMods = 3
  MaxExternals = 4
  MaxPhrases = 5
  Bodies <- mBodies
  Variables <- mVariables
  GSSIZE = 5
INVARIANTS TextRoutines InputKept TypingKept StorageKept RingKept ParseKept CompilerKept
PROPERTIES FilesKept 
CHECK_DEADLOCK FALSE
