CONSTANTS
    None = None
    Charges = {c1}
    Tasks = {k1}
    Emails = {c1}
    Phones = {c1}
    Offsets <- TwoReminders
    Lead = 1
    DueDay = 1
    LastDay = 3
    MaxStalled = 1
    MaxFaults = 0
CHECK_DEADLOCK FALSE
SPECIFICATION FairSpec
PROPERTY ReminderReachesTenant
