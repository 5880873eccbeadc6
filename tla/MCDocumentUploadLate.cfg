SPECIFICATION UploadSpec
CONSTANTS
    r1 = r1
    r2 = r2
    r3 = r3
    item = item
    gone = gone
    uploadKey = uploadKey
    pdf = pdf
    pdf2 = pdf2
    fake = fake
    Requests = {r1, r2}
    Intents <- MCIntents
    Items = {item}
    NoKey = NoKey
    Genuine = {pdf, pdf2}
    Operands <- MCOperands
    LateInserts = TRUE
    MaxFaults = 2
INVARIANTS
    RowsHaveObjects
CHECK_DEADLOCK FALSE
