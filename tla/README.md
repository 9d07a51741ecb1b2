# A verification project for the PozitronOS kernel

PozitronOS is a 32-bit single-CPU kernel with a graphical desktop, written in C.
The repository holds it twice: `pozitron_os/main_system` is the system that is
installed, `pozitron_os/installer_syst` a second build of the same kernel around
an installer. Most files of the two trees are byte-identical; every path below is
under `pozitron_os/main_system/src` unless it says otherwise.

The modules here are TLA+ models of the kernel's own logic. TLC checks them on
small instances (the `.cfg` files), and TLAPS proves what matters most for every
instance (the `*Proofs.tla` modules). `PROJECT.json` lists the components, the
runs, the mutants that show each property can fail, the source lines behind each
definition, the findings, the hazards and the theorems.

    tlc -workers 2 -config Heap.cfg MCHeap.tla      # model-check one run
    tlapm HeapProofs.tla                            # check one module's proofs

## The system: inventory

| component | state it keeps | operations | hard because |
|---|---|---|---|
| event queue `core/event.c` | 128 slots, head, tail, count | init, post, poll, clear, available | posted to by nested handlers; init runs with interrupts on |
| interrupt entry `core/irq_asm.asm`, `drivers/pic.c` | the 8259 pair's request and in-service bits | stubs, `irq_handler`, `pic_send_eoi` | every handler sends its own EOI and `irq_handler` another; `event_post`'s `sti` makes handlers nest |
| timer `drivers/timer.c` | `timer_ticks` | `timer_handler`, `timer_wait` | runs callouts and the scheduler inside the interrupt |
| keyboard `drivers/keyboard.c` | modifier state | `keyboard_handler`, LED commands | two posts per key with interrupts enabled in between; polls the controller inside the handler |
| mouse `drivers/mouse.c` | packet, cycle, buttons, position | `mouse_handler` | must stay in step with a three-byte packet |
| main loop `kernel/main.c` | `system_running` | boot sequence; `hlt`, drain the queue, render | sleeps without looking at the queue again |
| heap `kernel/memory.c` | doubly linked list of blocks that tile a region | `kmalloc`, `kfree`, `krealloc`, `kmalloc_aligned`, `kfree_aligned`, DMA variants | split and merge keep sizes, links and ownership together |
| paging `kernel/paging.c` | frame bitmap, page directory | alloc/free frame, map, unmap, translate | frame 0 is ambiguous; ranges that wrap |
| scheduler `kernel/scheduler.c` | 16 task slots, `current_task` | create, exit, yield, tick | the running kernel has no live slot of its own |
| callouts `kernel/callout.c` | list of armed callouts | reset, stop, process | the list is walked in the interrupt and changed by callbacks |
| mutex, semaphore | lock byte, count | lock, unlock, wait, signal | read, then exchange |
| ext2 `fs/ext2.c` | superblock, bitmaps, inodes, one block buffer | mount, format, lookup, read, write, create, mkdir, unlink, readdir, close | several disk blocks per operation through one buffer, no rollback, errors swallowed |
| VFS `fs/vfs.c` | mounts, 64 open files | mount, umount, open, close, read, write, mkdir, copy | pointers into file systems that may be gone |
| disk layer `drivers/disk.c` | disks, partitions | MBR parsing, bounded access | arithmetic at the end of a partition |
| AHCI `drivers/ahci.c`, ATA `drivers/ata.c` | ports, command slots | identify, read, write, flush | completion against time-out; chunked transfers |
| window manager and widgets `gui/*.c` | window list, focus, drag state | create, destroy, focus, move, minimise, maximise, event dispatch | callbacks that close the window being handled |
| task bar, menus, shutdown dialog `gui/taskbar.c`, `gui/shutdown.c` | a button for each window, two menus, the animation's level | button, start menu, clock menu, dialog, cancel | windows that other windows' handlers create and destroy |
| input fields `gui/wget.c`, `gui/core.c` | buffer, cursor, selection, scroll offset | 14 editing operations, click, drag | index arithmetic on a bounded buffer |
| set-up of the first boot `gui/setup.c` | the form; files on the disk | `is_first_boot`, `setup_finish_callback` | several files, none of them atomic |
| installer `installer_syst/src/kernel/main.c` | page, selected disk, place in the image | choose a disk, write the image, flush, verify | a disk cache, failing writes, power failures |
| notifications `kernel/notif.c` | array of 16, index of the pressed button | printf, update, click, remove | the array shifts under a remembered index and under sliding messages |
| graphics, fonts, cursor, logo, dirty rectangles | frame buffers | drawing | pixel output |
| device list, PCI and hardware scan | list of devices | create, destroy, add child | one link used for two lists |
| CPU tables, CMOS, power, serial, library, multiboot | - | straight-line port I/O and pure functions | - |

How they interact: devices raise lines on the 8259s; the stub calls
`irq_handler`, which calls the driver's handler; handlers post events; the main
loop polls them and hands each to `gui_handle_event` and
`handle_keyboard_events`, which change windows and focus and may post again; the
timer's handler also runs callouts and the scheduler. All of the GUI, ext2 and
the VFS allocate from the heap, from the main loop or the boot sequence only.

What makes each part correct is stated as the properties of its module; the
hazards of `PROJECT.json` say at which line each could go wrong, and name those
that no property covers with the reason.

## Modules and what they show

### The event queue: `EventFifo`, `EventQueue`, `EventQueueProofs`

`EventFifo` is the promise: a bounded FIFO that gives up its oldest event when
full. `EventQueue` is `core/event.c`: the slots, `queue_head`, `queue_tail`,
`queue_count` as variables of the same names, `EventPost`, `EventPoll`,
`EventClear` one step each because they run between `cli` and `sti` on the only
CPU, and `event_init` as three single stores because it does not. The time stamp
and the payload of an event are abstracted into a set of distinct events.

Run `event_queue` (3 slots, 3 distinct events: full, empty and wrapped rings,
1577 states) assumes that no tick lands inside `event_init` and checks that the
indices agree and that the ring refines `EventFifo` under the mapping
`pending <- Contents`. Run `event_init_race` drops the assumption, as
`kernel_main` does (it executes `sti` long before `event_init`), and
finds the indices in disagreement. That is a finding.

`EventQueueProofs` proves type correctness, the agreement of the indices and the
refinement for every ring size and every set of events. The strengthening says
what `event_init` has already zeroed while it is under way; the refinement proof
rests on lemmas about what one slot forward does to `Contents`.

### The input pipeline: `InputPipeline` (with `EventFifo` as its queue)

The composition of device, 8259 pair, stub, `irq_handler`, the three handlers,
the queue and the main loop. The control state is a stack of handler frames;
each frame has a program point between two of the places where the handler's
interrupts are enabled. A handler runs with interrupts disabled until its first
`event_post`, whose `sti` enables them; then it can be interrupted. The 8259
model is that of its data sheet: fixed priority, an in-service bit holds back
its own and lower lines, a non-specific EOI retires the highest in-service bit,
whoever it belongs to. That last point is why the doubled EOIs matter.

The history variables `stolen` and `texts` record whether an EOI retired a
keyboard handler's bit while it was between its two events, and the texts
posted. They change nothing else. The two `outb`s with which an interrupt of the
slave is acknowledged are one step (`SendEoi`): the handlers send them with
interrupts disabled, or nothing happens in between that tells the order.

* `TextInOrder`: characters are queued in key order and with the case of their
  KEY_PRESS, unless an EOI was stolen. The exception is real: a tick between the
  two posts lets the next key in, and TLC violates the property without it.
* `MouseInSync`: the driver's place in the packet is that of the device.
* `PicQuiescent`: when no handler runs, nothing is in service and IF is set.
* `MouseNotReentered`: the mouse handler is not interrupted by itself.
* `BytesTaken`, `QueueServed`: liveness under the fairness below.

Run `input_pipeline`: two keys, four mouse bytes (a packet and the beginning of
the next), a TIMER_TICK event every second tick, a queue of one slot; 4.3 million
states. Two keys are what it takes for a key to arrive inside the handler of the
previous one, four bytes for a mouse interrupt inside the mouse handler's
events. The queue is kept at one slot because its own properties are the
business of `EventQueue`; losing an event at every opportunity is the harder
case for the loop. Run `input_liveness`: one key, three mouse bytes, two slots.

`InputPipelineProofs` proves the five safety properties for any numbers of keys,
mouse bytes, ticks and queue slots. Three inductive invariants, one on top of
the other:

* `PathInv`: `TypeOK`; only the topmost frame can be at its first statement, and
  then with interrupts off (`FirstOnTop`); a keyboard interrupt that is
  requested for, or at that statement, finds its byte in the output buffer
  (`Routed`); the driver's
  cycle is the number of mouse bytes sent, less the one in the buffer, modulo 3
  (`InStep`). The last is `MouseInSync`.
* `ReturnInv`: the mouse handler holds its in-service bit until its own EOI,
  although other EOIs come in between (`MouseHeld`, since the mouse is on the
  slave's line 12 and the EOIs of the master's lines never reach it); it is alone
  on the stack; and there are never more bits in service than frames on the stack. With
  an empty stack nothing is in service: `PicQuiescent`.
* `OrderInv`, unless `stolen`: a keyboard frame between its two posts holds its
  bit, so there is at most one, all other texts are out, and its key is ahead of
  every text posted: `TextInOrder`.

Three more theorems are the part of `BytesTaken` and `QueueServed` that is not fairness.
`NoByteForgotten`: a byte in the 8042's buffer has its interrupt requested, or the
handler that reads it entered, so that no nesting of handlers and no EOI leaves a
byte behind that blocks the controller. `PathNeverStuck`: the topmost handler
always has a step, and with no handler on the stack and something requested the
CPU takes an interrupt. These two follow from `PathInv` and `ReturnInv` with one more
invariant, that each frame on the stack is at one of its places (`AllAtPlaces`).
`QueueNotPassedOver`: once an event is queued, and until the loop handles one, the
queue is never empty, each step of the loop lowers the number of steps to the
poll that finds an event (`TurnsLeft`), no interrupt raises it, and the next one
ends the loop's `hlt`.

Fairness (`FairSpec`): the PIT never stops, and its interrupt and handler are
not delayed for ever (weak). The other interrupts, handlers and the main loop
get on if they could again and again (strong), because a tick comes every 10 ms
and a handler takes microseconds; the hardware saves and restores the
interrupted code's progress. The keyboard and the mouse owe nothing.

### The heap: `Allocator`, `Heap`, `HeapProofs`

`Allocator` is what callers rely on: grants are extents that never overlap and
that change only through their owner. `Heap` is `memory.c`'s list: `block` maps
the address of each header to its fields, `merging` is the block at which
`merge_block`, which calls itself, has arrived, `live` is what the callers hold.
`SplitBlock`, `Carve`, `Absorb`, `FindFreeBlock` are the C helpers;
`Kmalloc`, `KmallocAligned`, `Kfree`, `KreallocInPlace`, `KreallocMove` the
calls, the failing ones included. Payload bytes are not modelled, nor is
`heap_end`, which is only ever written. Callers free only what they hold, and krealloc only
kmalloc pointers. They free once, but not always with the function that belongs to the pointer:
`ahci.c` (242-250 and 308-311) gives buffers of `kmalloc_aligned` back with `kfree`
when a port fails, and `ext2_format` does so with its own (1311, 1356). That is
`KfreeOfAligned`: the word `kfree` takes for the magic is the back pointer, it refuses, and
the pointer joins `lost`; the callers have no further use for it, and nobody frees it again. (`vfs_umount`, which nothing
calls, would do the opposite, and is left out.) No interrupt handler allocates and no
second task is ever created, so calls do not interleave.

* `Tiled`: each block ends where its successor starts, `prev` undoes `next`,
  the last ends at `heap_total`.
* `BlocksOwned`: a held or lost pointer's block is in use, large enough and of nobody
  else, so what was lost is never handed out again; any other block in use is one whose magic was overwritten.
* `FreedHeapIsWhole`: after everything is freed, and nothing leaked, one free block is left, although
  `krealloc` leaves free neighbours behind and `merge_block` looks at one
  predecessor only.
* `ImplementsAllocator`: refinement of `Allocator`.

Run `heap`: 220 bytes, three pointers, requests of 1, 24 and 60 bytes, alignment
8: enough for a block to be split twice, to be taken whole with a remainder
that is too small, to be refused, to have free blocks on both sides, for
`krealloc` to shrink, to grow in place, to move and to fail; 778 thousand
states. Run `heap_aligned` checks `heap_validate`'s "Bad magic" assertion and
finds it violated by `kmalloc_aligned` (a finding).

`HeapProofs` proves the five properties for every heap size, header size, set of
requests and alignments that satisfies `HeapAssumption` (requests do not wrap
the 32-bit rounding). The inductive invariant adds to the properties:
the pointers in `lost` are aligned ones and still count as held;
`FreeIntact` (a free block has its magic, so `find_free_block` skips none),
`MergingFree` (the block being merged is free) and `FrontMerged`, the reason why
nothing is lost: the first two blocks of the heap are never both free unless one
of them is being merged. Further on free blocks may lie side by side, but then a
block in use comes before them, and its release takes them all in one after the
other. The proof has lemmas for each helper
(`SplitSound`, `CarveSound`, `AbsorbSound`) and one step per action.

`MergingEnds`: `merge_block` calls itself, and comes to an end. Each call moves
the end of the merged block nearer to `heap_total` or is the last, which leaves
what was freed in one free block with no free block behind it; what callers hold
stays as it was.

### Files on disk: `Ext2`, `Ext2Proofs`, `Ext2ContentsProofs`

`Ext2` is `fs/ext2.c` as `fs/vfs.c` drives it: open (with and without creation),
read and write, seek, close and mkdir of names in the root. The driver caches
nothing but the three buffers and the inode it works on, so the state is the
disk (block bitmap, inode bitmap, inode table, block contents, the root's
names), the open handles with their own copies of position and size, and the
local variables of the call under way (`call`, `cur`, `blk`, `tab`, and `pc` for
how far it has got). **Each disk write is a step of its own**, and `Crash` may
come between any two of them; calls do not interleave with each other, because
the kernel has one task and no interrupt handler uses files. What has been
written stays written, in the order of the writes: that is right for a reset and
for a hang, which leave the disk's own cache alone. A power failure of a disk
that caches writes may do more harm, since the driver flushes only in `ext2_sync`
(`ext2.c:400-406`); the five properties promise nothing for that. In `LinkFails` the two
bitmap writes of a failed creation (`ext2.c:667-668`) are one step: a crash
between them leaves what the failure of an earlier step leaves, an inode marked
that no directory names. The block map is
the real one scaled down: `Direct` slots, a single and a double table of `Words`
entries; `BlockAt` is `ext2_read_block_from_inode` and the actions
`TakeTable`, `ZeroTable`, `WriteIndex`, `LinkInTable`, `LinkFails` are
`ext2_write_block_to_inode` with its allocations in order.

* `LinkedBlocksMarked`: a block that an inode in use on the disk leads to is marked in the bitmap, after any number of crashes and failed
  calls, so no later allocation can hand it out again.
* `NoSharedBlock`: no block is reached by two ways.
* `ContentsKept`: a word within a file's size is the last one written there.
* `LoneCloseKeepsSize`: closing a handle that was alone on its file leaves the
  size that is on the disk. With two handles on one file it does not: `close`
  writes the size its handle remembers, and the exception is the history
  variable `shared`. This loss is real, and no property excludes it.

None of these speaks of an inode that a failed or interrupted creation has taken
from the bitmap and put in no directory (`ext2.c:587-668`). It is lost for good,
in the code as in the model; the properties say that no block of any file is
lost or shared with it.

Run `ext2`: 8 blocks, 1 direct slot, 2 words to a block, writes of 3 words at
positions up to 3, two handles (symmetric), an image with one file whose
directory block is full, so that a creation makes the directory grow; 684
thousand states. Four blocks of data are enough to go through the single and
into the double table; eight blocks run out in the middle of that. `written`, `created` and `shared`
are history and decide nothing.

Run `ext2_directory`: three inodes, 6 blocks, one handle: enough inodes for a
mkdir after the creation that made the directory grow, and few enough for both
calls to fail for want of inodes and of blocks; the directory block may have room
here; 74 thousand states.

Run `ext2_create` asks what the EXT2 TEST of `kernel/main.c:171-207` expects:
that a file whose creation succeeded is in its directory. It is not: the entry
is edited in `block_buf` and handed to `ext2_write_data`, which first reads the
old block into that same buffer. That is a finding. The model follows the code
here (`DirectoryWritten`), so in it, as in the code, no name is ever added; files
come from the image. Once the directory had no unused entry, the block that was
added for one has record length 0 and the next scan never ends: `pc = "hung"`,
which only a reset ends.

All five properties are proved, `ContentsKept` in `Ext2ContentsProofs` and the
others in `Ext2Proofs`, for disks, tables, inodes and handles of any number and calls of any length. The
disk alone does not make an inductive invariant, because a call links blocks in
its own copy of an inode and writes that copy last. `DiskInv` is therefore
about `Links`, the inodes as the running call sees them:

* `StructureInv`: everything `Links` leads to is marked and reached once. A new
  table counts only when it has been zeroed (`Unzeroed`), as its former
  contents would otherwise be taken for links.
* `CopyInv`: the copy has every link the disk has. That is why a crash, and a
  call that gives up, is harmless: what is left is a part of a sound structure.
* `ReservedInv`: the blocks that a call has taken and not yet linked are marked
  and nothing leads to them, and a block that is about to be written with data
  is no table.
* `RootInv`: the directory has the block of the image, or has grown once and
  then cannot grow again, since a scan of it does not end; that is what makes
  its next direct slot free when it is set.
* `SizeInv` adds, for `LoneCloseKeepsSize`, that a handle that was alone is the
  only one on its file now.

The lemmas come in three groups: what may be done to a sound structure
(`Fewer`, `SlotLinked`, `EntryLinked`, `DataWritten`), what a step does to the
types and the bounds, and one lemma for each kind of step that it keeps the
structure.

For `ContentsKept` the sizes on the disk are not enough: a handle that is closed
writes back an old size, another one still stands behind that end and writes
there, and the words in between count again. They were not lost, since no block
is ever taken from a file. So `LeafInv` is about every position that some size
*or some handle* speaks of:

* `ContentsInv` and `WriteInv`: at those positions (`Claimed`), and up to where
  the running `ext2_write` has come, the block that is reached holds the last
  word written (`Good`). `Reach` is `BlockAt` without the inode around it, so
  that it can be asked of the inode on the disk and of the call's copy.
* `PlaceInv`: while a block is being linked, its place in the file leads nowhere
  yet, whatever tables have been made for it; afterwards it leads to that block.
* `KindInv`: an inode nobody has, and one being made, has no size.

The argument rests on three facts of `DiskInv`: a block of data is reached in one
way only and is no table (`OneWay`, `LeafIsData`), and links and tables only gain
(`Kept`). A step that writes a block then either touches no file's data
(`TouchesOnly`: a table, a block nothing reaches, a directory's) or is
`ext2_write_data`, which changes the words it is given and no others
(`WordsWritten`).

Left out: `unlink` and `rmdir` (nothing in the kernel calls them), format,
`readdir`, the checks of `mount`, failing `kmalloc` and disk errors, and the
fields that decide nothing without `unlink` (modes, times, `i_blocks`, links,
the free counts in memory).

### The desktop: `Desktop`, `DesktopProofs`

`Desktop` composes `gui/wm.c`, the registry, the focus and the event dispatch of
`gui/core.c`, the menus of `gui/taskbar.c`, `gui/shutdown.c` and the main loop's
own keyboard handler, which gets every key a second time after
`gui_handle_event`. These C functions call each other and share `gui_state`, so
they are operators from one value of it (`gui`) to the next (`Create`, `Focus`,
`Restore`, `Minimize`, `Maximize`, `Destroy`, `StartMenuToggle`, `OpenDialog`),
and an action is what the main loop makes of one event: a key, a press on the
task bar, on a window's widget, title or edge, a movement, the release, a step
of the shutdown animation. A window is named by its address, which `kmalloc`
may hand out again; a pointer is good when `Valid` says so, which is
`IS_VALID_WINDOW_PTR` with its registry of ids modulo its size.

* `NoDangling`: the list, the focus, the drag, the menus, the dialog and the
  registry point to live windows only, and each live window is in the list.
* `ButtonForEachWindow`: a window of the task bar has its button for life.
* `RegisteredForAWhile`: a window stays usable until the registry's size of
  further ids was handed out. No longer: after 256 more windows the slot of a
  live window is taken (`core.c:12-29`), and then it can no longer be focused.
* `OneRectangle`: through any order of maximising, minimising, moving, resizing
  and restoring, a window comes back to one rectangle.
* `DraggedOnlyWhileHeld`: no release goes past a window being dragged. A window
  being *resized* is another matter: when it loses the focus on the way (the
  start menu comes up with the keyboard) its `resizing` stays set, and it goes on
  resizing when it is focused again; hence the guard in `OneRectangle`.
* `CancelShowsAll`: a cancelled shutdown shows every window that is not
  minimised, and only those.
* `OneFocused`: no window but `focused_window` has the flag by which the task bar
  decides between minimising and focusing.

Run `desktop`: four addresses, three windows, a registry of two slots, three
ids, two rectangles, one level of darkness; 202 thousand states, symmetric in
addresses and rectangles. Three windows are an application, a menu and the
dialog, or two to pass the focus between with a third on top; two registry slots
let three ids collide; four addresses leave one to be handed out again. Neither
`Window` contents nor pixels are modelled, and ids do not come round at 2^32.
Both kernels set `taskbar_disabled` at boot and nothing calls `taskbar_enable`:
the model has the task bar enabled, as its code is written for.
`CHECK_DEADLOCK FALSE`: the machine is off at the end of a shutdown.

`DesktopProofs` proves all eight invariants for any addresses, rectangles, limits
on windows and buttons, sizes of the registry and lengths of the animation. What
is assumed of the constants: there is room for more windows than the limit, no
more windows than buttons (`ButtonAssumption`, 64 of `wm_create_window`
against 70), and the full screen is not an ordinary rectangle (`GeomAssumption`:
`wm_create_window` and `wm_do_resize` keep every window 50 pixels narrower and lower
than that, so `geom` tells a maximised window from another one). The invariant `IInv` is about one value of
`gui_state`, `Good(g, hidden, dlg)`, since one event calls several functions one after
the other and each must find a good state:

* `Links`: the list has each live window once (`Listed`); ids grow (`Numbered`)
  and a registry slot agrees with the id of the window it names (`Registered`),
  so that the slot cleared for a window that is destroyed, which is always a valid
  one, is the only slot that named it; the menus and the dialog are windows of their kind
  (`Menus`), so that Escape and the title buttons cannot destroy them behind
  the pointer's back; `Pointing`, `Barred` and `Recent` for the rest.
* `Looks`: each window's rectangles and flags agree (`WellShaped`, which adds
  that `orig_free` is never lost, or a restored window could not be moved);
  at most one window is focused, and it is not minimised (`Focused`); what is visible is
  what is not minimised, or what the dialog has hidden (`Seen`).

One lemma for each C function says that it leads from good states to good ones
(`GoodFocus`, `GoodMinimize`, `GoodDestroy`, `GoodCreateMenu`, `GoodOpenDialog`,
...), most of them by `WindowChanges` (one window changes its looks) and
`SameLinks` (nothing that names a window changed); one lemma for each action
chains them. A drag ends because it begins only with a press, because the dialog
cannot be opened while it lasts, and because destroying the window ends it too.

Seen on the way and left as they are, since no document says otherwise: F11
reaches two handlers and so has no effect, Tab moves by two places; a dialog
that cannot be allocated leaves the button of a freed window (`shutdown.c`,
after 283); `widget->dragging` survives a release over the task bar
(`core.c:551-554`); the shift bit of a click is read from the pointer's row
(`core.c:376`); `wg_destroy_widget` leaves `gui_state.focus_widget` behind; a press on a button whose
window is gone makes the button invalid without lowering the count of buttons
(`taskbar.c:694-697`), which decides only how far the bar scrolls and is left out.

### Input fields: `Editor`, `TextInput`, `TextInputProofs`

`Editor` is what a user of a field expects: a text of bounded length, a cursor
and a selection, and typing, erasing, moving and selecting as one-line
definitions on texts; what the program itself puts into the field (`SetText`) is one of
`Settable`, the initial text and those of `SetTexts`. `TextInput` is the code: a buffer with a NUL somewhere,
loops that move bytes (each loop is a function from the buffer to the buffer:
`EraseRange`, `EraseOne`, `Insert`, `Copy`), the keys of
`handle_input_special_key`, clicks and drags with the scroll offset, the drawing
that adjusts it. `wg_input_set_text`, `wg_input_select_all` and the cursor's end
are not called in the repository and are there as its API.

* `StringInBuffer`: the buffer holds a string that ends inside it, and the cursor
  and both ends of the selection are positions of that string. What lies behind
  the NUL is arbitrary: `wg_create_input` does not clear it.
* `ImplementsEditor`: refinement, the text being the bytes up to the NUL.

`TextInputProofs` proves both, and the types, for every buffer size, character
set, width and initial text. `TextInv` (types and `StringInBuffer`) is
inductive; the refinement uses lemmas on what each loop does to the text
(`EraseRangeText`, `EraseOneText`, `TypedText`), all of them instances of one
`Replace` of a range.

### From the medium to a system that is set up: `Installer`, `Notifications`, `Setup`, `Deployment`, `DeploymentProofs`

`Installer` is `installer_syst/src/kernel/main.c`: the pages with the selected
disk, and `perform_installation` with one step for each `disk_write` and
`flush`. `media` is what a disk returns when read, `platter` what it has left
after a power failure; a failing write has done a prefix. `Setup` is the first
boot: `kernel_main` from mounting the root, `is_first_boot`, the form (with a
`TextInput` for the name) and `setup_finish_callback`, one step for each file
operation; `files` and `synced` are the files as written and as flushed. What
the file operations do is what `fs/ext2.c` makes of them, see below.
`Notifications` is `kernel/notif.c`: the messages with their slots of the array,
where each is drawn and whether it slides, the remembered index of a pressed
close button; `NotifUpdate` is one frame's `notif_update` with its loop that
stays at a slot when the message goes. `Deployment` composes them: the installer
runs, posts messages and draws frames between its steps, the power fails at any
point, the machine starts from the medium again or from a disk that holds the
image, and is set up.

* `CompleteIsWhole`: "complete" on the screen, and no transfer failed: the whole
  image is on the platter. With a failed transfer the installer says the same,
  so nothing can be promised then.
* `OnlyFittingTouched`: CDs and disks that are too small are never written to.
* `DoneIsDone`: a configuration that says the set-up is done stands beside a
  `passwd` whose first line is a user of the set-up *whose directory is on the
  disk*, through power failures and set-ups begun anew with other names. Three
  exemptions, each of them what the code does: a write, a flush or an open that failed without
  a word (`failed`); an image without `/etc/passwd`, on which nobody is ever
  named; and `HomeLostUnnoticed`, below.
* `DrawnAtItsButton`: a message is drawn where its close button is looked for, or
  is on its way there, unless it was shifted *while it slid*
  (`notif_recalc_targets` passes over it, `notif.c:71`). The exception is real:
  without it TLC finds the messages in the wrong places, also two in one place.
* `ClosesWhatWasPressed`: a release closes the message whose button was pressed,
  as long as those up to it are all still there. If one of them is gone the
  index means another message, which is closed when the pointer is over it.
* `InstallationEnds`, `MessagesExpire`: liveness.

`DoneIsDone` is about calls that lie. `ext2_mkdir` and `ext2_create` make the new
entry in `block_buf` and hand it to `ext2_write_data`, which reads the old block
over it and reports success (run `ext2_create`). In `Setup` that is `ReportMade`,
the outcome of every successful creation: *no name is ever added*, and the names
on the disk are those of the image for good. `image` says what these are: which
of the files and directories that the boot and the set-up name, the users with a
directory, what `/users/Default` is (missing, empty, or with entries), and which
directories have room, an entry of no file long enough for a new name. A
directory without room grows by zeros instead: it joins `spoiled`, and a search
through it for a name that is not before the zeros never ends (`sys = "hung"`). So:

* `Ext2Test` is the EXT2 TEST of `kernel/main.c:168-217`, which makes `/test.txt`
  and `/testdir` at each boot before the configuration is read. On the image
  that `build.sh` makes it hangs, since neither is there.
* `MakeUserDirectory` may go on with a directory that is not there. `CopyTemplate`
  makes it again, and then either fails at the template's first file, hangs, or,
  with an empty template and room in `/users`, succeeds: that last case is
  `HomeLostUnnoticed`, a set-up that completes for a user without a directory.
* `WritePasswd` writes over the first line of `/etc/passwd` where the image has
  one (`NewLine`); where it has none, into a file without a name (`NoPasswd`).
* `OpenConf` finds the old configuration as it was: the `vfs_truncate` of `vfs.c:234`
  does nothing, for ext2 has no truncate (`ext2.c:994-1002`).

The mutant `CopyTemplateUnchecked` ignores the error at the template's first file, and
with it TLC finds the user without a directory; `WritePasswdUnsynced` leaves out the flush.

Run `deployment`: four disks (one a CD, one too small, two that fit), an image
of three sectors in blocks of two with a flush after two blocks, so that the
last block is short and both ways to flush occur; two power failures, so that
a set-up or an installation is begun twice and cut off again; a buffer of four
bytes over two characters, with every edit; three slots for four messages, so
that the array is full once, and slides of two frames. Three
bounds keep the product small: messages are posted and frames drawn only before
the first power failure (`NoisyCuts`; afterwards the array is as at boot), an
installation begins when no message is left, since nothing it does reads them,
and the form is filled in while no second disk was written to
(`AtMostOneTouched`), since the set-up looks at no disk but the root. Six file
systems (`MCImages`): that of `build.sh`, whose EXT2 TEST hangs, and five to which users, files
or directories with room were copied, so that each way through the set-up is
taken to its end, `HomeLostUnnoticed` and a `/users` that grows included. Which
one it is shows when the root is first mounted, and an installation begun anew
writes the same one again. 144 thousand states.

Fairness: `perform_installation` goes on (its waits have time-outs), frames are
drawn (the timer wakes the loop's `hlt` 100 times a second) and time passes;
all weak. Users, disks and the power owe nothing. `CHECK_DEADLOCK FALSE`: a
machine without power, after the bounded number of failures, may stay off.

Run `deployment_ready` takes "=== SYSTEM READY ===" of `kernel/main.c:277` at its
word: a system that says so answers. `yield()` returns with interrupts disabled
(`timer_utils.c:15-19`), and after a wait for the disk in `is_first_boot`
nothing enables them before the main loop's `hlt`. That is a finding.

`DeploymentProofs` proves all of the run's invariants and its refinement for any
disks, images, block sizes, messages and numbers of power failures:

* `OnlyFittingDisksWritten` by `FitInv`: no step of `perform_installation` runs
  before the check, and no page changes the selected disk afterwards.
* `CompleteStaysWhole` by `ImageInv`: at each step the sectors of the blocks
  before `block` are on the medium (`WholeInv`), and the blocks cover the image
  (`BlocksCover`).
* `DoneStaysDone` by `SetupInv`, for any set of file systems that satisfies
  `FilesAssumption`: `DoneInv` speaks of both copies of the files, so
  that it survives any mixture of them a power failure leaves; `NotYetDone` and
  `Progress` say how far the callback has come: before `CopyTemplate` a user
  without a directory is one for whom `/users` was spoiled or had room, and after it
  one of the exempted case (`Housed`).
* `MessagesAtTheirButtons` and `ClicksCloseWhatWasPressed` by `NotifInv`:
  `Packed` (the slots are taken from the first one on, older messages first),
  `OnItsWay` (a slide that nothing shifted ends at the slot) and `ClickInv` (the
  messages that were there up to the pressed one are, while none is missing, the
  first of the array). A frame is a loop: `InRound` says what holds after each of
  its rounds, and that it holds after all of them is shown by taking the first
  round after which it does not (`LeastExists`, from the library's theorem that
  the order of the numbers is well-founded), since induction itself is out of
  reach.
* `DeploymentTypes` by `TypeInv` (`BlockInv`: `block` never passes the last
  block), `FormStringKept` by the field's own invariant, and
  `FormImplementsEditor`: opening the form is the editor's `SetText`, everything
  else that the machine does leaves the field alone.

Four theorems more are what the two liveness properties rest on besides fairness.
`InstallationNeverStalls`: while the window says "Installing" the guards of a step
of `perform_installation` hold (`RunningInv`), and `InstallationCountsDown`: each
such step lowers `StepsLeft`, nothing raises it, and it is zero exactly when the
page changes to "complete". `FramesWearMessagesDown`: a frame leaves no message
that is expired and at rest, and one that closes none brings every sliding
message nearer its place. `NoMessageLostEarly`: a message goes only
because it has expired, by its own close button, as the oldest of a full array
when another is posted, or with the power.

Noticed and modelled or left, as noted in the modules: neither file of the set-up
is truncated when it is opened, so the rest of a longer line stays; `vfs_copy_file` ignores errors, and
`ext2_read` never advances the position, so a template that is not empty is
copied until a write fails (`vfs.c:420-427`, `ext2.c:464`);
`vfs_read_config(path, NULL)` returns NULL, so earlier settings are lost
(`vfs.c:505`, `setup.c:110-125`); a failing `mkdir` leaves the form's controls
disabled for good, and so does an error of the copy; `VerifyMBR`'s stamp is not flushed; an image whose size is no
multiple of 512 loses its tail (`main.c:337`); the kernel mounts disk 0
whichever disk was installed.

## What is proved, and what is only model-checked

Proved for all values of the constants (under the named ASSUMEs of the modules):
every invariant, every action property and every refinement that a passing run
checks. Beyond these, theorems that no run states: the termination of
`merge_block` (`MergingEnds`), why messages go (`NoMessageLostEarly`), and the
safety halves of the liveness properties (`NoByteForgotten` and
`PathNeverStuck`, `QueueNotPassedOver`, `InstallationNeverStalls` and
`InstallationCountsDown`, `FramesWearMessagesDown`).

Only model-checked: liveness itself (`BytesTaken`, `QueueServed`,
`InstallationEnds`, `MessagesExpire`), since the prover has no rules for fairness
and ENABLED; the theorems above take the place of the guards and the variants
that such proofs would need, and stop short of the step from "can be
taken, and counts down" to "ends". The proofs reason with induction only through
the well-foundedness of numbers and the library's theorems on finite sets, since its
induction rules take an operator as a parameter, which the provers cannot
instantiate. The violations found by `event_init_race`, `heap_aligned`,
`ext2_create` and `deployment_ready` are counterexamples and need no proof.

## What is not modelled

* Scheduler, callouts, mutexes, semaphores, `device_add_child`, `vfs_umount`,
  `vfs_unlink`, `timer_wait`, `kcalloc`: nothing in the repository calls them. A
  model would have to invent its callers.
* Paging, CPU tables, PCI and hardware scan, multiboot: straight-line set-up.
* The disk layer and the AHCI and ATA drivers: what a command does depends on
  the controller; the models above take a transfer to succeed, to fail, or to fail part of
  the way.
* Drawing, fonts, the cursor, the logo, the other widgets: pixels.
* The keyboard's LED commands, which poll the controller's port inside the
  handler, the mouse's coordinates and initialisation, the choice of the heap's
  region at boot and the simple allocator that `USE_ADVANCED_ALLOCATOR` disables.
* `ext2`'s `unlink`, `rmdir`, format and `readdir`, the checks of `mount`, disk errors
  inside it, and blocks of 4096 bytes (for which its buffers are too small).
* `installer_syst` apart from its `main.c`: a second build of the same kernel.
  Of its sources only `ahci.c`, `disk.c`, `taskbar.c`, `main.c` and `string.c`
  differ, so the models of `core/`, `drivers/`, `gui/` and `kernel/` stand for
  both trees; `map` names the lines of one.
* Limine, the boot loader, is third-party code.
